---- MODULE Spec2Model ----
(***************************************************************************)
(* A/B test orchestration engine of the abtesting application:             *)
(* ABTestEngine (test_engine.py), VariantScheduler (scheduler.py),         *)
(* WinnerSelector (winner_selector.py) and MetricsCollector                *)
(* (metrics_collector.py) over the tables of models.py.                    *)
(*                                                                         *)
(* Every handler is a function from the world (the four tables, the video  *)
(* platform and the clock) and its inputs to a new world and a result.     *)
(* The handlers read rows into objects and later save whole objects, as    *)
(* the Django ORM does; the sequential actions run a handler in one step,  *)
(* the concurrent actions run the same pieces in separate steps.           *)
(***************************************************************************)
EXTENDS Integers, Sequences, FiniteSets, TLC

VARIABLES tests, variants, logs, results, platform, now, ret, rot, pc, loc,
          call, calc

vars == <<tests, variants, logs, results, platform, now, ret, rot, pc, loc,
          call, calc>>

(***************************************************************************)
(* Bounds                                                                  *)
(***************************************************************************)
\* last clock value at which a transaction may still commit
MaxClock == 5
\* the same for the rotation subsystem on its own
MaxRotClock == 7
\* the same for the interleaved calls
MaxConcClock == 5
\* clock ticks per calendar day (datetime.date())
TicksPerDay == 2
\* largest daily view count the analytics client reports
MaxViews == 1
\* last clock value at which a transaction may still commit when the
\* metrics are also updated directly
MaxMetClock == 4
\* the same when two tests exist
MaxTwoClock == 5
\* the same for interleaved lifecycle calls
MaxLifeClock == 5

\* null of a nullable column (ids and timestamps start at 1)
None == 0
\* a content field that is absent (None or '' in the source: both falsy)
NoContent == ""

Videos == {"v1"}
Durations == {2}
Procs == {1, 2}

\* models.py ABTest.TEST_TYPE_CHOICES / test_engine.py valid_types
valid_types == {"thumbnail", "title", "description", "combined"}

(***************************************************************************)
(* Results and error messages.  A message is its template, the status it   *)
(* names and the message it wraps.                                         *)
(***************************************************************************)
NoErr == [msg |-> "", state |-> "", cause |-> ""]
Err(m) == [msg |-> m, state |-> "", cause |-> ""]
ErrState(m, s) == [msg |-> m, state |-> s, cause |-> ""]
ErrCause(m, e) == [msg |-> m, state |-> e.state, cause |-> e.msg]

\* what a handler returns: the world it leaves, its (success, error) pair
\* and the variant it returns, if any
Result(w, ok, err, val) == [w |-> w, ok |-> ok, err |-> err, val |-> val]

World == [tests |-> tests, variants |-> variants, logs |-> logs,
          results |-> results, platform |-> platform, now |-> now]

\* datetime.isoformat(): the timestamp rendered as a string
isoformat(t) == <<"iso", t>>

\* TestLog.objects.create: timestamp is auto_now_add
TestLog(w, tid, action, details) ==
    Append(w.logs, [test |-> tid, action |-> action, details |-> details,
                    timestamp |-> w.now])

(***************************************************************************)
(* Queries                                                                 *)
(***************************************************************************)
\* string order of the variant names in use
NameRank(n) ==
    CASE n = "A" -> 1 [] n = "B" -> 2 [] n = "C" -> 3 [] n = "D" -> 4
      [] OTHER -> 0

\* test.variants: the ids of the test's variants
TestVariants(w, tid) == {v \in DOMAIN w.variants : w.variants[v].test = tid}

\* test.variants.order_by('variant_name') as a list
OrderByName(w, tid) ==
    LET VS == TestVariants(w, tid)
        pos(v) == 1 + Cardinality({u \in VS :
                     NameRank(w.variants[u].variant_name)
                       < NameRank(w.variants[v].variant_name)})
    IN  [i \in 1..Cardinality(VS) |-> CHOOSE v \in VS : pos(v) = i]

\* position of an element in a list, 0 when absent (list.index)
IndexOf(s, x) ==
    IF \E i \in 1..Len(s) : s[i] = x
    THEN CHOOSE i \in 1..Len(s) : s[i] = x
    ELSE 0

\* get_current_variant taking the least recently applied variant
get_current_variant_Oldest(w, tid) ==
    LET applied == {v \in TestVariants(w, tid) :
                      w.variants[v].applied_at # None}
        byName == OrderByName(w, tid)
    IN  IF applied # {}
        THEN CHOOSE v \in applied :
               \A u \in applied :
                 w.variants[u].applied_at >= w.variants[v].applied_at
        ELSE IF Len(byName) > 0 THEN byName[1] ELSE None

\* get_current_variant ignoring applied_at
get_current_variant_FirstByName(w, tid) ==
    LET byName == OrderByName(w, tid)
    IN  IF Len(byName) > 0 THEN byName[1] ELSE None

\* VariantScheduler.get_current_variant: the most recently applied variant,
\* else the first by name; None for a test without variants
get_current_variant(w, tid) ==
    LET applied == {v \in TestVariants(w, tid) :
                      w.variants[v].applied_at # None}
        byName == OrderByName(w, tid)
    IN  IF applied # {}
        THEN CHOOSE v \in applied :
               \A u \in applied :
                 w.variants[u].applied_at <= w.variants[v].applied_at
        ELSE IF Len(byName) > 0 THEN byName[1] ELSE None

(***************************************************************************)
(* ABTestEngine.create_test                                                *)
(***************************************************************************)
\* a variant dict of variants_data carrying every content field
Full(n) == [name |-> n, thumbnail_url |-> n, title |-> n, description |-> n]
\* a variant dict with a title and no other content
TitleOnly(n) == [name |-> n, thumbnail_url |-> NoContent, title |-> n,
                 description |-> NoContent]

\* the variants_data lists create_test is called with
VariantInputs ==
    { <<Full("A"), Full("B")>>,
      <<Full("C"), Full("A"), Full("B")>>,
      <<Full("A")>>,
      <<Full("A"), Full("B"), Full("C"), Full("D")>>,
      <<Full("A"), TitleOnly("B")>>,
      <<Full("A"), Full("A")>> }

\* the validation of create_test looking at the first variant only
ValidateVariants_FirstOnly(test_type, variants_data) ==
    LET v == variants_data[1]
    IN  IF v.name = NoContent THEN Err("Each variant must have a name")
        ELSE IF test_type = "thumbnail" /\ v.thumbnail_url = NoContent
        THEN Err("Thumbnail test requires thumbnail_url for each variant")
        ELSE IF test_type = "title" /\ v.title = NoContent
        THEN Err("Title test requires title for each variant")
        ELSE IF test_type = "description" /\ v.description = NoContent
        THEN Err("Description test requires description for each variant")
        ELSE IF test_type = "combined"
                /\ (v.thumbnail_url = NoContent \/ v.title = NoContent)
        THEN Err("Combined test requires both thumbnail_url and title for each variant")
        ELSE NoErr

\* the per-variant validation loop of create_test: the first message it
\* returns, NoErr when every variant passes
ValidateVariants(test_type, variants_data) ==
    LET bad(v) ==
          IF v.name = NoContent THEN Err("Each variant must have a name")
          ELSE IF test_type = "thumbnail" /\ v.thumbnail_url = NoContent
          THEN Err("Thumbnail test requires thumbnail_url for each variant")
          ELSE IF test_type = "title" /\ v.title = NoContent
          THEN Err("Title test requires title for each variant")
          ELSE IF test_type = "description" /\ v.description = NoContent
          THEN Err("Description test requires description for each variant")
          ELSE IF test_type = "combined"
                  /\ (v.thumbnail_url = NoContent \/ v.title = NoContent)
          THEN Err("Combined test requires both thumbnail_url and title for each variant")
          ELSE NoErr
        failing == {i \in 1..Len(variants_data) : bad(variants_data[i]) # NoErr}
    IN  IF failing = {} THEN NoErr
        ELSE bad(variants_data[CHOOSE i \in failing :
                                 \A j \in failing : i <= j])

\* the transaction of create_test: the test row, its variant rows and the
\* 'created' log entry
CreateCommit(w, video_id, test_type, variants_data, duration_hours) ==
    LET tid == Cardinality(DOMAIN w.tests) + 1
        base == Cardinality(DOMAIN w.variants)
        n == Len(variants_data)
        test == [video_id |-> video_id, test_type |-> test_type,
                 status |-> "draft", start_date |-> None, end_date |-> None,
                 duration_hours |-> duration_hours,
                 winner_variant |-> None, completed_at |-> None]
        row(i) == [test |-> tid, variant_name |-> variants_data[i].name,
                   thumbnail_url |-> variants_data[i].thumbnail_url,
                   title |-> variants_data[i].title,
                   description |-> variants_data[i].description,
                   impressions |-> 0, clicks |-> 0, views |-> 0, ctr |-> 0,
                   is_winner |-> FALSE, applied_at |-> None]
    IN  [w EXCEPT !.tests = w.tests @@ (tid :> test),
                  !.variants = w.variants
                                 @@ [v \in (base + 1)..(base + n) |-> row(v - base)],
                  !.logs = TestLog(w, tid, "created",
                                   [test_type |-> test_type,
                                    variant_count |-> n,
                                    duration_hours |-> duration_hours]),
                  !.now = w.now + 1]

\* create_test without its check of the number of variants
create_test_AnySize(w, user, video_id, test_type, variants_data, duration_hours) ==
    IF ~user
    THEN Result(w, FALSE, Err("User is required to create a test"), None)
    ELSE IF test_type \notin valid_types
    THEN Result(w, FALSE, Err("Invalid test type"), None)
    ELSE IF ValidateVariants(test_type, variants_data) # NoErr
    THEN Result(w, FALSE, ValidateVariants(test_type, variants_data), None)
    ELSE IF \E i, j \in 1..Len(variants_data) :
              i # j /\ variants_data[i].name = variants_data[j].name
    THEN Result(w, FALSE, Err("Failed to create test"), None)
    ELSE Result(CreateCommit(w, video_id, test_type, variants_data,
                             duration_hours),
                TRUE, NoErr, Cardinality(DOMAIN w.tests) + 1)

create_test(w, user, video_id, test_type, variants_data, duration_hours) ==
    IF ~user
    THEN Result(w, FALSE, Err("User is required to create a test"), None)
    ELSE IF Len(variants_data) < 2 \/ Len(variants_data) > 3
    THEN Result(w, FALSE, Err("Test must have between 2 and 3 variants"), None)
    ELSE IF test_type \notin valid_types
    THEN Result(w, FALSE, Err("Invalid test type"), None)
    ELSE IF ValidateVariants(test_type, variants_data) # NoErr
    THEN Result(w, FALSE, ValidateVariants(test_type, variants_data), None)
    \* unique_together (test, variant_name): IntegrityError rolls back
    ELSE IF \E i, j \in 1..Len(variants_data) :
              i # j /\ variants_data[i].name = variants_data[j].name
    THEN Result(w, FALSE, Err("Failed to create test"), None)
    ELSE Result(CreateCommit(w, video_id, test_type, variants_data,
                             duration_hours),
                TRUE, NoErr, Cardinality(DOMAIN w.tests) + 1)

(***************************************************************************)
(* VariantScheduler: the ContentApplier steps.  ext names the external     *)
(* step that fails when it is reached ("ok": none fails); a dispatch stops *)
(* at its first failing step, so one failing step describes every outcome. *)
(***************************************************************************)
ExtOutcomes == {"ok", "no_service", "download_fail", "upload_fail",
                "video_not_found", "update_fail"}

Applied(plat, ok, err) == [platform |-> plat, ok |-> ok, err |-> err]

_apply_thumbnail(plat, video_id, thumbnail_url, ext) ==
    IF ext = "download_fail"
    THEN Applied(plat, FALSE, Err("Failed to download thumbnail"))
    ELSE IF ext = "upload_fail"
    THEN Applied(plat, FALSE, Err("Failed to set thumbnail"))
    ELSE Applied([plat EXCEPT ![video_id].thumbnail = thumbnail_url],
                 TRUE, NoErr)

_apply_title(plat, video_id, title, ext) ==
    IF ext = "video_not_found"
    THEN Applied(plat, FALSE, Err("Video not found"))
    ELSE IF ext = "update_fail"
    THEN Applied(plat, FALSE, Err("Failed to update title"))
    ELSE Applied([plat EXCEPT ![video_id].title = title], TRUE, NoErr)

_apply_description(plat, video_id, description, ext) ==
    IF ext = "video_not_found"
    THEN Applied(plat, FALSE, Err("Video not found"))
    ELSE IF ext = "update_fail"
    THEN Applied(plat, FALSE, Err("Failed to update description"))
    ELSE Applied([plat EXCEPT ![video_id].description = description],
                 TRUE, NoErr)

\* _apply_combined restoring the platform when the thumbnail step fails
_apply_combined_Rollback(plat, video_id, thumbnail_url, title, ext) ==
    LET t == _apply_title(plat, video_id, title, ext)
    IN  IF ~t.ok
        THEN Applied(t.platform, FALSE,
                     ErrCause("Failed to update title in combined test", t.err))
        ELSE LET th == _apply_thumbnail(t.platform, video_id, thumbnail_url, ext)
             IN  IF ~th.ok
                 THEN Applied(plat, FALSE,
                        ErrCause("Failed to update thumbnail in combined test",
                                 th.err))
                 ELSE Applied(th.platform, TRUE, NoErr)

_apply_combined(plat, video_id, thumbnail_url, title, ext) ==
    LET t == _apply_title(plat, video_id, title, ext)
    IN  IF ~t.ok
        THEN Applied(t.platform, FALSE,
                     ErrCause("Failed to update title in combined test", t.err))
        ELSE LET th == _apply_thumbnail(t.platform, video_id, thumbnail_url, ext)
             IN  IF ~th.ok
                 THEN Applied(th.platform, FALSE,
                        ErrCause("Failed to update thumbnail in combined test",
                                 th.err))
                 ELSE Applied(th.platform, TRUE, NoErr)

\* apply_variant's dispatch on test.test_type
Dispatch(plat, test, variant, ext) ==
    IF test.test_type = "thumbnail"
    THEN _apply_thumbnail(plat, test.video_id, variant.thumbnail_url, ext)
    ELSE IF test.test_type = "title"
    THEN _apply_title(plat, test.video_id, variant.title, ext)
    ELSE IF test.test_type = "description"
    THEN _apply_description(plat, test.video_id, variant.description, ext)
    ELSE IF test.test_type = "combined"
    THEN _apply_combined(plat, test.video_id, variant.thumbnail_url,
                         variant.title, ext)
    ELSE Applied(plat, FALSE, Err("Unknown test type"))

\* the transaction of apply_variant without its audit entry
ApplyCommit_NoLog(w, tid, vid, test, variant) ==
    [w EXCEPT !.variants[vid] = [variant EXCEPT !.applied_at = w.now],
              !.now = w.now + 1]

\* the transaction of apply_variant: saves the variant object read earlier
\* with applied_at set, and writes the 'variant_changed' entry
ApplyCommit(w, tid, vid, test, variant) ==
    [w EXCEPT !.variants[vid] = [variant EXCEPT !.applied_at = w.now],
              !.logs = TestLog(w, tid, "variant_changed",
                               [variant_id |-> vid,
                                variant_name |-> variant.variant_name,
                                applied_at |-> isoformat(w.now),
                                test_type |-> test.test_type]),
              !.now = w.now + 1]

\* apply_variant without its check of the state
ApplyCheck_AnyState(w, tid, vid) ==
    IF tid \notin DOMAIN w.tests THEN Err("Test not found")
    ELSE IF vid \notin TestVariants(w, tid) THEN Err("Variant not found")
    ELSE NoErr

\* apply_variant accepting a completed test as well
ApplyCheck_Completed(w, tid, vid) ==
    IF tid \notin DOMAIN w.tests THEN Err("Test not found")
    ELSE IF vid \notin TestVariants(w, tid) THEN Err("Variant not found")
    ELSE IF w.tests[tid].status \notin {"active", "completed"}
    THEN ErrState("Cannot apply variant for test with status",
                  w.tests[tid].status)
    ELSE NoErr

\* the reads and checks of apply_variant before any external call
ApplyCheck(w, tid, vid) ==
    IF tid \notin DOMAIN w.tests THEN Err("Test not found")
    ELSE IF vid \notin TestVariants(w, tid) THEN Err("Variant not found")
    ELSE IF w.tests[tid].status # "active"
    THEN ErrState("Cannot apply variant for test with status",
                  w.tests[tid].status)
    ELSE NoErr

apply_variant(w, tid, vid, ext) ==
    IF ApplyCheck(w, tid, vid) # NoErr
    THEN Result(w, FALSE, ApplyCheck(w, tid, vid), None)
    ELSE IF ext = "no_service"
    THEN Result(w, FALSE, Err("Could not connect to YouTube"), None)
    ELSE LET test == w.tests[tid]
             variant == w.variants[vid]
             d == Dispatch(w.platform, test, variant, ext)
             w1 == [w EXCEPT !.platform = d.platform]
         IN  IF ~d.ok
             THEN Result(w1, FALSE, d.err, None)
             ELSE Result(ApplyCommit(w1, tid, vid, test, variant),
                         TRUE, NoErr, None)

\* the variant rotate_variant picks: the one after the current variant in
\* name order, wrapping around
NextVariant(w, tid) ==
    LET current_variant == get_current_variant(w, tid)
        all_variants == OrderByName(w, tid)
        current_index == IndexOf(all_variants, current_variant)
    IN  IF current_variant = None \/ current_index = 0
        THEN all_variants[1]
        ELSE all_variants[(current_index % Len(all_variants)) + 1]

\* the reads and checks of rotate_variant
RotateCheck(w, tid) ==
    IF tid \notin DOMAIN w.tests THEN Err("Test not found")
    ELSE IF w.tests[tid].status # "active"
    THEN ErrState("Cannot rotate variants for test with status",
                  w.tests[tid].status)
    ELSE IF TestVariants(w, tid) = {} THEN Err("Test has no variants")
    ELSE NoErr

rotate_variant(w, tid, ext) ==
    IF RotateCheck(w, tid) # NoErr
    THEN Result(w, FALSE, RotateCheck(w, tid), None)
    ELSE LET next_variant == NextVariant(w, tid)
             r == apply_variant(w, tid, next_variant, ext)
         IN  IF ~r.ok
             THEN Result(r.w, FALSE, r.err, None)
             ELSE Result(r.w, TRUE, NoErr, next_variant)

(***************************************************************************)
(* ABTestEngine: lifecycle transitions                                     *)
(***************************************************************************)
\* the transaction of start_test setting start_date on every start
StartCommit_Restart(w, tid, test) ==
    LET start_date == w.now
        end_date == start_date + test.duration_hours
    IN  [w EXCEPT !.tests[tid] = [test EXCEPT !.status = "active",
                                              !.start_date = start_date,
                                              !.end_date = end_date],
                  !.logs = TestLog(w, tid, "started",
                                   [start_date |-> isoformat(start_date),
                                    end_date |-> isoformat(end_date)]),
                  !.now = w.now + 1]

\* the transaction of start_test: saves the test object read earlier
StartCommit(w, tid, test) ==
    LET start_date == IF test.start_date = None THEN w.now
                      ELSE test.start_date
        end_date == start_date + test.duration_hours
    IN  [w EXCEPT !.tests[tid] = [test EXCEPT !.status = "active",
                                              !.start_date = start_date,
                                              !.end_date = end_date],
                  !.logs = TestLog(w, tid, "started",
                                   [start_date |-> isoformat(start_date),
                                    end_date |-> isoformat(end_date)]),
                  !.now = w.now + 1]

StartCheck(w, tid) ==
    IF tid \notin DOMAIN w.tests THEN Err("Test not found")
    ELSE IF w.tests[tid].status \notin {"draft", "paused"}
    THEN ErrState("Cannot start test with status", w.tests[tid].status)
    ELSE IF Cardinality(TestVariants(w, tid)) < 2
    THEN Err("Test must have at least 2 variants to start")
    ELSE NoErr

\* start_test applying the last variant by name
StartApplyFirst_Last(w, tid, ext) ==
    LET first_variant == OrderByName(w, tid)[Len(OrderByName(w, tid))]
        r == apply_variant(w, tid, first_variant, ext)
    IN  IF ~r.ok
        THEN Result(r.w, TRUE,
                    ErrCause("Test started but failed to apply first variant",
                             r.err), None)
        ELSE Result(r.w, TRUE, NoErr, None)

\* start_test failing when the first variant cannot be applied
StartApplyFirst_Coupled(w, tid, ext) ==
    LET first_variant == OrderByName(w, tid)[1]
        r == apply_variant(w, tid, first_variant, ext)
    IN  IF ~r.ok
        THEN Result(r.w, FALSE, r.err, None)
        ELSE Result(r.w, TRUE, NoErr, None)

\* the part of start_test after its transaction: apply the first variant
\* by name; a failure becomes a warning on a successful start
StartApplyFirst(w, tid, ext) ==
    LET first_variant == OrderByName(w, tid)[1]
        r == apply_variant(w, tid, first_variant, ext)
    IN  IF ~r.ok
        THEN Result(r.w, TRUE,
                    ErrCause("Test started but failed to apply first variant",
                             r.err), None)
        ELSE Result(r.w, TRUE, NoErr, None)

start_test(w, tid, ext) ==
    IF StartCheck(w, tid) # NoErr
    THEN Result(w, FALSE, StartCheck(w, tid), None)
    ELSE StartApplyFirst(StartCommit(w, tid, w.tests[tid]), tid, ext)

PauseCommit(w, tid, test) ==
    [w EXCEPT !.tests[tid] = [test EXCEPT !.status = "paused"],
              !.logs = TestLog(w, tid, "paused",
                               [paused_at |-> isoformat(w.now)]),
              !.now = w.now + 1]

PauseCheck(w, tid) ==
    IF tid \notin DOMAIN w.tests THEN Err("Test not found")
    ELSE IF w.tests[tid].status # "active"
    THEN ErrState("Cannot pause test with status", w.tests[tid].status)
    ELSE NoErr

pause_test(w, tid) ==
    IF PauseCheck(w, tid) # NoErr
    THEN Result(w, FALSE, PauseCheck(w, tid), None)
    ELSE Result(PauseCommit(w, tid, w.tests[tid]), TRUE, NoErr, None)

ResumeCommit(w, tid, test) ==
    [w EXCEPT !.tests[tid] = [test EXCEPT !.status = "active"],
              !.logs = TestLog(w, tid, "resumed",
                               [resumed_at |-> isoformat(w.now)]),
              !.now = w.now + 1]

\* resume_test without its check of the state
ResumeCheck_AnyState(w, tid) ==
    IF tid \notin DOMAIN w.tests THEN Err("Test not found")
    ELSE NoErr

ResumeCheck(w, tid) ==
    IF tid \notin DOMAIN w.tests THEN Err("Test not found")
    ELSE IF w.tests[tid].status # "paused"
    THEN ErrState("Cannot resume test with status", w.tests[tid].status)
    ELSE NoErr

resume_test(w, tid) ==
    IF ResumeCheck(w, tid) # NoErr
    THEN Result(w, FALSE, ResumeCheck(w, tid), None)
    ELSE Result(ResumeCommit(w, tid, w.tests[tid]), TRUE, NoErr, None)

\* the transaction of stop_test without its audit entry
StopCommit_NoLog(w, tid, test) ==
    [w EXCEPT !.tests[tid] = [test EXCEPT !.status = "completed",
                                          !.completed_at = w.now],
              !.now = w.now + 1]

\* the transaction of stop_test leaving completed_at as it was
StopCommit_NoStamp(w, tid, test) ==
    [w EXCEPT !.tests[tid] = [test EXCEPT !.status = "completed"],
              !.logs = TestLog(w, tid, "stopped",
                               [stopped_at |-> isoformat(w.now),
                                stopped_early |-> TRUE]),
              !.now = w.now + 1]

StopCommit(w, tid, test) ==
    [w EXCEPT !.tests[tid] = [test EXCEPT !.status = "completed",
                                          !.completed_at = w.now],
              !.logs = TestLog(w, tid, "stopped",
                               [stopped_at |-> isoformat(w.now),
                                stopped_early |-> TRUE]),
              !.now = w.now + 1]

\* stop_test accepting a draft
StopCheck_Draft(w, tid) ==
    IF tid \notin DOMAIN w.tests THEN Err("Test not found")
    ELSE IF w.tests[tid].status \notin {"draft", "active", "paused"}
    THEN ErrState("Cannot stop test with status", w.tests[tid].status)
    ELSE NoErr

StopCheck(w, tid) ==
    IF tid \notin DOMAIN w.tests THEN Err("Test not found")
    ELSE IF w.tests[tid].status \notin {"active", "paused"}
    THEN ErrState("Cannot stop test with status", w.tests[tid].status)
    ELSE NoErr

stop_test(w, tid) ==
    IF StopCheck(w, tid) # NoErr
    THEN Result(w, FALSE, StopCheck(w, tid), None)
    ELSE Result(StopCommit(w, tid, w.tests[tid]), TRUE, NoErr, None)

(***************************************************************************)
(* WinnerSelector                                                          *)
(***************************************************************************)
\* manual_variant_id left at its default (Python None)
NoArg == -1

\* check_for_winner: impressions below this block winner selection
MIN_IMPRESSIONS == 0

\* check_for_winner taking the variant with the smallest ctr
BestVariant_Lowest(w, tid) ==
    LET all == OrderByName(w, tid)
        best == {i \in 1..Len(all) :
                   \A j \in 1..Len(all) :
                     w.variants[all[j]].ctr >= w.variants[all[i]].ctr}
    IN  all[CHOOSE i \in best : \A j \in best : i <= j]

\* check_for_winner taking the last variant by name with the largest ctr
BestVariant_LastByName(w, tid) ==
    LET all == OrderByName(w, tid)
        best == {i \in 1..Len(all) :
                   \A j \in 1..Len(all) :
                     w.variants[all[j]].ctr <= w.variants[all[i]].ctr}
    IN  all[CHOOSE i \in best : \A j \in best : i >= j]

\* max(variants, key=ctr) over test.variants.all(), which Meta.ordering
\* sorts by name: the first variant in name order with the largest ctr
BestVariant(w, tid) ==
    LET all == OrderByName(w, tid)
        best == {i \in 1..Len(all) :
                   \A j \in 1..Len(all) :
                     w.variants[all[j]].ctr <= w.variants[all[i]].ctr}
    IN  all[CHOOSE i \in best : \A j \in best : i <= j]

check_for_winner(w, tid) ==
    IF tid \notin DOMAIN w.tests
    THEN Result(w, FALSE, Err("Test not found"), None)
    ELSE IF w.tests[tid].status \notin {"active", "completed"}
    THEN Result(w, FALSE,
                ErrState("Cannot check winner for test with status",
                         w.tests[tid].status), None)
    ELSE IF Cardinality(TestVariants(w, tid)) < 2
    THEN Result(w, FALSE, Err("Test must have at least 2 variants"), None)
    ELSE IF \E v \in TestVariants(w, tid) :
              w.variants[v].impressions < MIN_IMPRESSIONS
    THEN Result(w, FALSE, Err("Insufficient data"), None)
    ELSE Result(w, TRUE, NoErr, BestVariant(w, tid))

\* the transaction of select_winner stamping completed_at in every state
SelectCommit_Restamp(w, tid, test, wid, winner, manual_variant_id) ==
    [w EXCEPT !.variants[wid] = [winner EXCEPT !.is_winner = TRUE],
              !.tests[tid] = [test EXCEPT !.winner_variant = wid,
                                          !.status = "completed",
                                          !.completed_at = w.now],
              !.logs = TestLog(w, tid, "winner_selected",
                         [winner_variant_id |-> wid,
                          winner_variant_name |-> winner.variant_name,
                          winner_ctr |-> winner.ctr,
                          manual_selection |-> manual_variant_id # NoArg,
                          selected_at |-> isoformat(w.now)]),
              !.now = w.now + 1]

\* the transaction of select_winner: saves the winner and test objects
\* read earlier
SelectCommit(w, tid, test, wid, winner, manual_variant_id) ==
    LET t1 == [test EXCEPT !.winner_variant = wid]
        t2 == IF test.status = "active"
              THEN [t1 EXCEPT !.status = "completed", !.completed_at = w.now]
              ELSE t1
    IN  [w EXCEPT !.variants[wid] = [winner EXCEPT !.is_winner = TRUE],
                  !.tests[tid] = t2,
                  !.logs = TestLog(w, tid, "winner_selected",
                             [winner_variant_id |-> wid,
                              winner_variant_name |-> winner.variant_name,
                              winner_ctr |-> winner.ctr,
                              manual_selection |-> manual_variant_id # NoArg,
                              selected_at |-> isoformat(w.now)]),
                  !.now = w.now + 1]

\* the reads and checks of select_winner: its error, or NoErr and the
\* winner it settles on
SelectCheck(w, tid, manual_variant_id) ==
    IF tid \notin DOMAIN w.tests
    THEN Result(w, FALSE, Err("Test not found"), None)
    ELSE IF w.tests[tid].status \notin {"active", "completed"}
    THEN Result(w, FALSE,
                ErrState("Cannot select winner for test with status",
                         w.tests[tid].status), None)
    ELSE IF manual_variant_id \notin {NoArg, 0}
    THEN IF manual_variant_id \notin TestVariants(w, tid)
         THEN Result(w, FALSE, Err("Specified variant not found"), None)
         ELSE Result(w, TRUE, NoErr, manual_variant_id)
    ELSE check_for_winner(w, tid)

select_winner(w, tid, manual_variant_id) ==
    LET c == SelectCheck(w, tid, manual_variant_id)
    IN  IF ~c.ok
        THEN Result(w, FALSE, c.err, None)
        ELSE Result(SelectCommit(w, tid, w.tests[tid], c.val,
                                 w.variants[c.val], manual_variant_id),
                    TRUE, NoErr, c.val)

\* the transaction of apply_winner: the 'winner_applied' entry
WinnerAppliedCommit(w, tid, test) ==
    [w EXCEPT !.logs = TestLog(w, tid, "winner_applied",
                         [winner_variant_id |-> test.winner_variant,
                          winner_variant_name |->
                            w.variants[test.winner_variant].variant_name,
                          applied_at |-> isoformat(w.now)]),
              !.now = w.now + 1]

apply_winner(w, tid, ext) ==
    IF tid \notin DOMAIN w.tests
    THEN Result(w, FALSE, Err("Test not found"), None)
    ELSE IF w.tests[tid].winner_variant = None
    THEN Result(w, FALSE, Err("Test has no winner selected"), None)
    ELSE LET test == w.tests[tid]
             r == apply_variant(w, tid, test.winner_variant, ext)
         IN  IF ~r.ok
             THEN Result(r.w, FALSE, r.err, None)
             ELSE Result(WinnerAppliedCommit(r.w, tid, test), TRUE, NoErr,
                         None)

(***************************************************************************)
(* MetricsCollector                                                        *)
(***************************************************************************)
\* datetime.date(): the calendar day of a timestamp
Date(t) == t \div TicksPerDay

\* current_start = None in _get_variant_active_periods
NoDate == -1

\* calculate_variant_ctr cutting the quotient off after two decimals
calculate_variant_ctr_Truncated(impressions, clicks) ==
    IF impressions <= 0 THEN 0
    ELSE (clicks * 10000) \div impressions

\* calculate_variant_ctr in hundredths of a percent: round(x, 2) of
\* clicks / impressions * 100.  round() goes to the nearest hundredth of the
\* double it is given, ties to even; the quotient is a tie as a double when
\* it is one exactly, which it is for impressions a power of two
calculate_variant_ctr(impressions, clicks) ==
    IF impressions <= 0 THEN 0
    ELSE LET n == clicks * 10000
             q == n \div impressions
             r == n % impressions
         IN  IF 2 * r < impressions THEN q
             ELSE IF 2 * r > impressions THEN q + 1
             ELSE IF q % 2 = 0 THEN q ELSE q + 1

\* the loop of _get_variant_active_periods over the test's
\* 'variant_changed' entries from position i on
RECURSIVE PeriodsFrom(_, _, _, _, _)
PeriodsFrom(changes, i, vid, current_start, periods) ==
    IF i > Len(changes) THEN [current_start |-> current_start,
                              periods |-> periods]
    ELSE IF changes[i].details.variant_id = vid
    THEN PeriodsFrom(changes, i + 1, vid, Date(changes[i].timestamp), periods)
    ELSE IF current_start # NoDate
    THEN PeriodsFrom(changes, i + 1, vid, NoDate,
                     Append(periods,
                            <<current_start, Date(changes[i].timestamp)>>))
    ELSE PeriodsFrom(changes, i + 1, vid, current_start, periods)

\* TestLog.objects.filter(test, action='variant_changed').order_by('timestamp')
VariantChanges(w, tid) ==
    SelectSeq(w.logs, LAMBDA e : e.test = tid /\ e.action = "variant_changed")

\* _get_variant_active_periods without the period that is still open
_get_variant_active_periods_Closed(w, tid, vid) ==
    PeriodsFrom(VariantChanges(w, tid), 1, vid, NoDate, <<>>).periods

_get_variant_active_periods(w, tid, vid) ==
    LET f == PeriodsFrom(VariantChanges(w, tid), 1, vid, NoDate, <<>>)
        test == w.tests[tid]
        end_date == IF test.completed_at # None THEN Date(test.completed_at)
                    ELSE Date(w.now)
    IN  IF f.current_start # NoDate
        THEN Append(f.periods, <<f.current_start, end_date>>)
        ELSE f.periods

RECURSIVE SumViews(_, _)
SumViews(rows, days) ==
    IF days = {} THEN 0
    ELSE LET d == CHOOSE x \in days : TRUE
         IN  rows[d] + SumViews(rows, days \ {d})

\* rows maps each reported day to its view count
_calculate_variant_metrics(w, tid, vid, rows) ==
    LET variant_periods == _get_variant_active_periods(w, tid, vid)
        inside == {d \in DOMAIN rows :
                     \E k \in 1..Len(variant_periods) :
                       variant_periods[k][1] <= d /\ d <= variant_periods[k][2]}
        total_views == SumViews(rows, inside)
    IN  IF Len(variant_periods) = 0
        THEN [impressions |-> 0, clicks |-> 0, views |-> 0, ctr |-> 0]
        ELSE [impressions |-> total_views * 10, clicks |-> total_views,
              views |-> total_views,
              ctr |-> calculate_variant_ctr(total_views * 10, total_views)]

\* TestResult.objects.create: recorded_at is auto_now_add
TestResult(w, vid, metric_type, value) ==
    [test |-> w.variants[vid].test, variant |-> vid,
     metric_type |-> metric_type, value |-> value, recorded_at |-> w.now]

required_keys == {"impressions", "clicks", "views", "ctr"}

\* update_variant_stats recording no 'ctr' TestResult
UpdateCommit_ThreeSnapshots(w, vid, variant, metrics) ==
    [w EXCEPT !.variants[vid] = [variant EXCEPT
                                   !.impressions = metrics.impressions,
                                   !.clicks = metrics.clicks,
                                   !.views = metrics.views,
                                   !.ctr = metrics.ctr],
              !.results = w.results \o
                  << TestResult(w, vid, "impressions", metrics.impressions),
                     TestResult(w, vid, "clicks", metrics.clicks),
                     TestResult(w, vid, "views", metrics.views) >>,
              !.now = w.now + 1]

\* the transaction of update_variant_stats
UpdateCommit(w, vid, variant, metrics) ==
    [w EXCEPT !.variants[vid] = [variant EXCEPT
                                   !.impressions = metrics.impressions,
                                   !.clicks = metrics.clicks,
                                   !.views = metrics.views,
                                   !.ctr = metrics.ctr],
              !.results = w.results \o
                  << TestResult(w, vid, "impressions", metrics.impressions),
                     TestResult(w, vid, "clicks", metrics.clicks),
                     TestResult(w, vid, "views", metrics.views),
                     TestResult(w, vid, "ctr", metrics.ctr) >>,
              !.now = w.now + 1]

update_variant_stats(w, vid, metrics) ==
    IF vid \notin DOMAIN w.variants
    THEN Result(w, FALSE, Err("Variant not found"), None)
    ELSE IF ~(required_keys \subseteq DOMAIN metrics)
    THEN Result(w, FALSE, Err("Missing required metric"), None)
    ELSE Result(UpdateCommit(w, vid, w.variants[vid], metrics), TRUE, NoErr,
                None)

\* the loop of collect_variant_metrics over test.variants.all() from
\* position i on; a failed update is logged and skipped
RECURSIVE CollectFrom(_, _, _, _, _)
CollectFrom(w, tid, all, i, rows) ==
    IF i > Len(all) THEN w
    ELSE CollectFrom(update_variant_stats(w, all[i],
                        _calculate_variant_metrics(w, tid, all[i], rows)).w,
                     tid, all, i + 1, rows)

\* the days collect_variant_metrics asks the analytics client for
CollectDays(w, tid) ==
    LET test == w.tests[tid]
        start_date == Date(test.start_date)
        end_date == IF test.completed_at # None THEN Date(test.completed_at)
                    ELSE Date(w.now)
    IN  start_date..end_date

\* collect_variant_metrics without its check of the state
CollectCheck_AnyState(w, tid) ==
    IF tid \notin DOMAIN w.tests THEN Err("Test not found")
    ELSE IF w.tests[tid].start_date = None
    THEN Err("Test has not been started yet")
    ELSE NoErr

\* collect_variant_metrics checking the start date before the state
CollectCheck_StartFirst(w, tid) ==
    IF tid \notin DOMAIN w.tests THEN Err("Test not found")
    ELSE IF w.tests[tid].start_date = None
    THEN Err("Test has not been started yet")
    ELSE IF w.tests[tid].status \notin {"active", "completed"}
    THEN ErrState("Cannot collect metrics for test with status",
                  w.tests[tid].status)
    ELSE NoErr

CollectCheck(w, tid) ==
    IF tid \notin DOMAIN w.tests THEN Err("Test not found")
    ELSE IF w.tests[tid].status \notin {"active", "completed"}
    THEN ErrState("Cannot collect metrics for test with status",
                  w.tests[tid].status)
    ELSE IF w.tests[tid].start_date = None
    THEN Err("Test has not been started yet")
    ELSE NoErr

\* analytics_error: get_video_metrics returned an error; rows: its rows
collect_variant_metrics(w, tid, analytics_error, rows) ==
    IF CollectCheck(w, tid) # NoErr
    THEN Result(w, FALSE, CollectCheck(w, tid), None)
    ELSE IF analytics_error
    THEN Result(w, FALSE, Err("Analytics request failed"), None)
    ELSE IF TestVariants(w, tid) = {}
    THEN Result(w, FALSE, Err("Test has no variants"), None)
    ELSE Result(CollectFrom(w, tid, OrderByName(w, tid), 1, rows), TRUE,
                NoErr, None)

(***************************************************************************)
(* State machine: handlers run one at a time                               *)
(***************************************************************************)
\* ids callers pass: those of the test and its variants, and unknown ones
TestIdArgs == {1, 2}
VariantIdArgs == {1, 2, 3, 4}
TestTypeArgs == valid_types \cup {"poll"}

\* no run of consecutive rotate calls is in progress
NoRun == [test |-> None, base |-> None, run |-> <<>>]

\* the variant applied last, None when no variant was ever applied
LatestApplied(w, tid) ==
    IF \E v \in TestVariants(w, tid) : w.variants[v].applied_at # None
    THEN get_current_variant(w, tid)
    ELSE None

\* the local variables of a call in progress: its arguments, the objects
\* it has read, the number of log entries when it began, and its result
NoLoc == [op |-> "", tid |-> None, vid |-> None, manual |-> NoArg,
          test |-> None, variant |-> None, ver |-> None,
          ok |-> FALSE, err |-> NoErr]

\* the local variables of _execute_with_retry: the loop index, the backoff,
\* the status of every request.execute() so far, the seconds slept after
\* each attempt that was retried, whether each get_credentials call
\* returned credentials, and the (response, error) it returned
NoCall == [pc |-> "idle", attempt |-> 0, backoff |-> 0, executed |-> <<>>,
           slept |-> <<>>, refreshed |-> <<>>, ok |-> FALSE, err |-> ""]

\* a call of calculate_variant_ctr: its arguments and what it returned
NoCalc == [pc |-> "idle", impressions |-> 0, clicks |-> 0, ctr |-> 0]

Init ==
    /\ tests = <<>>
    /\ variants = <<>>
    /\ logs = <<>>
    /\ results = <<>>
    /\ platform = [v \in Videos |->
                     [thumbnail |-> "orig", title |-> "orig",
                      description |-> "orig"]]
    /\ now = 1
    /\ ret = [op |-> "init", ok |-> TRUE, err |-> NoErr, changed |-> FALSE]
    /\ rot = NoRun
    /\ pc = [p \in Procs |-> "idle"]
    /\ loc = [p \in Procs |-> NoLoc]
    /\ call = NoCall
    /\ calc = NoCalc

\* the world a handler leaves becomes the state; cap is the last clock
\* value at which a transaction may commit
SetWorld(w, cap) ==
    /\ w.now <= cap + 1
    /\ tests' = w.tests
    /\ variants' = w.variants
    /\ logs' = w.logs
    /\ results' = w.results
    /\ platform' = w.platform
    /\ now' = w.now

\* Handlers run one at a time, each to completion.  ret is what the last
\* call returned and whether it changed the world.  A call that failed and
\* changed nothing leaves a world that is also reached without it, so the
\* behaviours are not continued past it.
Ready ==
    /\ \A p \in Procs : pc[p] = "idle"
    /\ ret.ok \/ ret.changed

Call(op, r, cap) ==
    /\ SetWorld(r.w, cap)
    /\ ret' = [op |-> op, ok |-> r.ok, err |-> r.err,
               changed |-> r.w # World]
    /\ UNCHANGED <<pc, loc, call, calc>>

\* inputs that a handler does not look at when its checks fail are not
\* enumerated
ExtArgs(err) == IF err = NoErr THEN ExtOutcomes ELSE {"ok"}
VariantArgs(tid) == IF tid \in DOMAIN tests THEN VariantIdArgs ELSE {1}

\* the calls of create_test: every test type with every variants_data
\* list, and one call without a user
CreateArgs ==
    [user : {TRUE}, test_type : TestTypeArgs, variants_data : VariantInputs]
      \cup [user : {FALSE}, test_type : {"title"},
            variants_data : {<<Full("A"), Full("B")>>}]

\* create_test is called while no test exists: the specifications follow
\* one test
Create(cap) ==
    /\ Ready
    /\ DOMAIN tests = {}
    /\ \E a \in CreateArgs, video_id \in Videos, duration_hours \in Durations :
        Call("create",
             create_test(World, a.user, video_id, a.test_type,
                         a.variants_data, duration_hours), cap)
    /\ rot' = NoRun

Start(cap) ==
    /\ Ready
    /\ \E tid \in TestIdArgs :
        \E ext \in ExtArgs(StartCheck(World, tid)) :
            Call("start", start_test(World, tid, ext), cap)
    /\ rot' = NoRun

Pause(cap) ==
    /\ Ready
    /\ \E tid \in TestIdArgs : Call("pause", pause_test(World, tid), cap)
    /\ rot' = NoRun

Resume(cap) ==
    /\ Ready
    /\ \E tid \in TestIdArgs : Call("resume", resume_test(World, tid), cap)
    /\ rot' = NoRun

Stop(cap) ==
    /\ Ready
    /\ \E tid \in TestIdArgs : Call("stop", stop_test(World, tid), cap)
    /\ rot' = NoRun

Apply(cap) ==
    /\ Ready
    /\ \E tid \in TestIdArgs :
        \E vid \in VariantArgs(tid) :
            \E ext \in ExtArgs(ApplyCheck(World, tid, vid)) :
                Call("apply", apply_variant(World, tid, vid, ext), cap)
    /\ rot' = NoRun

\* rot follows the runs of consecutive successful rotate calls on a test:
\* the variant that was applied last before the run, and the variants the
\* calls of the run returned
Rotate(cap) ==
    /\ Ready
    /\ \E tid \in TestIdArgs :
        \E ext \in ExtArgs(RotateCheck(World, tid)) :
            \E r \in {rotate_variant(World, tid, ext)} :
                /\ Call("rotate", r, cap)
                /\ rot' = IF ~r.ok THEN NoRun
                          ELSE IF rot.test = tid
                          THEN [rot EXCEPT !.run = Append(rot.run, r.val)]
                          ELSE [test |-> tid,
                                base |-> LatestApplied(World, tid),
                                run |-> <<r.val>>]

SelectWinner(cap) ==
    /\ Ready
    /\ \E tid \in TestIdArgs :
        \E manual_variant_id \in VariantArgs(tid) \cup {NoArg} :
            Call("select_winner",
                 select_winner(World, tid, manual_variant_id), cap)
    /\ rot' = NoRun

ApplyWinner(cap) ==
    /\ Ready
    /\ \E tid \in TestIdArgs :
        \E ext \in ExtArgs(IF tid \in DOMAIN tests
                           THEN ApplyCheck(World, tid,
                                           tests[tid].winner_variant)
                           ELSE Err("Test not found")) :
            Call("apply_winner", apply_winner(World, tid, ext), cap)
    /\ rot' = NoRun

Collect(cap) ==
    /\ Ready
    /\ \E tid \in TestIdArgs :
        \E analytics_error \in IF CollectCheck(World, tid) = NoErr
                               THEN BOOLEAN ELSE {FALSE} :
            \E rows \in [IF CollectCheck(World, tid) = NoErr /\ ~analytics_error
                         THEN CollectDays(World, tid) ELSE {} -> 0..MaxViews] :
                Call("collect",
                     collect_variant_metrics(World, tid, analytics_error,
                                             rows), cap)
    /\ rot' = NoRun

Next ==
    \/ Create(MaxClock)
    \/ Start(MaxClock)
    \/ Pause(MaxClock)
    \/ Resume(MaxClock)
    \/ Stop(MaxClock)
    \/ Apply(MaxClock)
    \/ Rotate(MaxClock)
    \/ SelectWinner(MaxClock)
    \/ ApplyWinner(MaxClock)
    \/ Collect(MaxClock)

Spec == Init /\ [][Next]_vars

\* the rotation subsystem on its own, over longer runs
NextRotation ==
    \/ Create(MaxRotClock)
    \/ Start(MaxRotClock)
    \/ Pause(MaxRotClock)
    \/ Apply(MaxRotClock)
    \/ Rotate(MaxRotClock)

SpecRotation == Init /\ [][NextRotation]_vars

(***************************************************************************)
(* Interleaved calls.  After a sequential set-up, each process makes one   *)
(* call whose queries, external calls and transaction are separate steps:  *)
(* the code takes no lock and reads its objects outside its transaction.   *)
(* pc is the position of each process in its call.                         *)
(***************************************************************************)
Finish(p, ok, err) ==
    /\ pc' = [pc EXCEPT ![p] = "done"]
    /\ loc' = [loc EXCEPT ![p].ok = ok, ![p].err = err]

\* rotate_variant up to its call of apply_variant: the status check and
\* the choice of the next variant
RotateBegin(p) ==
    /\ pc[p] = "idle"
    /\ DOMAIN tests # {}
    /\ \E tid \in TestIdArgs :
        IF RotateCheck(World, tid) # NoErr
        THEN /\ pc' = [pc EXCEPT ![p] = "done"]
             /\ loc' = [loc EXCEPT ![p] =
                          [NoLoc EXCEPT !.op = "rotate", !.tid = tid,
                                        !.ver = Len(logs),
                                        !.err = RotateCheck(World, tid)]]
        ELSE /\ pc' = [pc EXCEPT ![p] = "apply_read"]
             /\ loc' = [loc EXCEPT ![p] =
                          [NoLoc EXCEPT !.op = "rotate", !.tid = tid,
                                        !.ver = Len(logs),
                                        !.vid = NextVariant(World, tid)]]
    /\ UNCHANGED <<tests, variants, logs, results, platform, now, ret, rot,
                 call, calc>>

\* a direct call of apply_variant
ApplyBegin(p) ==
    /\ pc[p] = "idle"
    /\ DOMAIN tests # {}
    /\ \E tid \in TestIdArgs :
        \E vid \in VariantArgs(tid) :
            /\ pc' = [pc EXCEPT ![p] = "apply_read"]
            /\ loc' = [loc EXCEPT ![p] =
                         [NoLoc EXCEPT !.op = "apply", !.tid = tid,
                                       !.ver = Len(logs), !.vid = vid]]
    /\ UNCHANGED <<tests, variants, logs, results, platform, now, ret, rot,
                 call, calc>>

\* what the call returns when its apply_variant returns (ok, err):
\* start_test turns a failure into a warning on a successful start
ApplyReturn(p, ok, err) ==
    IF loc[p].op = "start"
    THEN Finish(p, TRUE,
                IF ok THEN NoErr
                ELSE ErrCause("Test started but failed to apply first variant",
                              err))
    ELSE Finish(p, ok, err)

\* apply_variant: reads the test and the variant, checks the status
ApplyRead(p) ==
    /\ pc[p] = "apply_read"
    /\ IF ApplyCheck(World, loc[p].tid, loc[p].vid) # NoErr
       THEN ApplyReturn(p, FALSE, ApplyCheck(World, loc[p].tid, loc[p].vid))
       ELSE /\ pc' = [pc EXCEPT ![p] = "apply_ext"]
            /\ loc' = [loc EXCEPT ![p].test = tests[loc[p].tid],
                                  ![p].variant = variants[loc[p].vid]]
    /\ UNCHANGED <<tests, variants, logs, results, platform, now, ret, rot,
                 call, calc>>

\* apply_variant: the ContentApplier steps
ApplyExt(p) ==
    /\ pc[p] = "apply_ext"
    /\ \E ext \in ExtOutcomes :
        /\ IF ext = "no_service"
           THEN /\ ApplyReturn(p, FALSE, Err("Could not connect to YouTube"))
                /\ UNCHANGED platform
           ELSE \E d \in {Dispatch(platform, loc[p].test, loc[p].variant, ext)} :
                    /\ platform' = d.platform
                    /\ IF d.ok
                       THEN /\ pc' = [pc EXCEPT ![p] = "apply_commit"]
                            /\ UNCHANGED loc
                       ELSE ApplyReturn(p, FALSE, d.err)
        /\ UNCHANGED <<tests, variants, logs, results, now, ret, rot,
                 call, calc>>

\* apply_variant: the transaction
ApplyCommitStep(p) ==
    /\ pc[p] = "apply_commit"
    /\ SetWorld(ApplyCommit(World, loc[p].tid, loc[p].vid, loc[p].test,
                            loc[p].variant), MaxConcClock)
    /\ ApplyReturn(p, TRUE, NoErr)
    /\ UNCHANGED <<ret, rot, call, calc>>

\* select_winner: its queries and checks
SelectBegin(p) ==
    /\ pc[p] = "idle"
    /\ DOMAIN tests # {}
    /\ \E tid \in TestIdArgs :
        \E manual_variant_id \in VariantArgs(tid) \cup {NoArg} :
            \E c \in {SelectCheck(World, tid, manual_variant_id)} :
                IF ~c.ok
                THEN /\ pc' = [pc EXCEPT ![p] = "done"]
                     /\ loc' = [loc EXCEPT ![p] =
                                  [NoLoc EXCEPT !.op = "select_winner",
                                                !.tid = tid,
                                                !.manual = manual_variant_id,
                                                !.ver = Len(logs),
                                                !.err = c.err]]
                ELSE /\ pc' = [pc EXCEPT ![p] = "select_commit"]
                     /\ loc' = [loc EXCEPT ![p] =
                                  [NoLoc EXCEPT !.op = "select_winner",
                                                !.tid = tid,
                                                !.manual = manual_variant_id,
                                                !.ver = Len(logs),
                                                !.vid = c.val,
                                                !.test = tests[tid],
                                                !.variant = variants[c.val]]]
    /\ UNCHANGED <<tests, variants, logs, results, platform, now, ret, rot,
                 call, calc>>

\* select_winner: the transaction
SelectCommitStep(p) ==
    /\ pc[p] = "select_commit"
    /\ SetWorld(SelectCommit(World, loc[p].tid, loc[p].test, loc[p].vid,
                             loc[p].variant, loc[p].manual), MaxConcClock)
    /\ Finish(p, TRUE, NoErr)
    /\ UNCHANGED <<ret, rot, call, calc>>

NextConc ==
    \/ Create(MaxConcClock)
    \/ Start(MaxConcClock)
    \/ \E p \in Procs : RotateBegin(p)
    \/ \E p \in Procs : ApplyRead(p)
    \/ \E p \in Procs : ApplyExt(p)
    \/ \E p \in Procs : ApplyCommitStep(p)
    \/ \E p \in Procs : SelectBegin(p)
    \/ \E p \in Procs : SelectCommitStep(p)

SpecConc == Init /\ [][NextConc]_vars

(***************************************************************************)
(* Interleaved lifecycle calls.  start_test, pause_test, resume_test and   *)
(* stop_test read the test and check its status, then save the whole row   *)
(* they read in their transaction; start_test goes on to apply_variant.    *)
(***************************************************************************)
LifeOps == {"start", "pause", "resume", "stop"}

LifeCheck(op, w, tid) ==
    IF op = "start" THEN StartCheck(w, tid)
    ELSE IF op = "pause" THEN PauseCheck(w, tid)
    ELSE IF op = "resume" THEN ResumeCheck(w, tid)
    ELSE StopCheck(w, tid)

LifeCommit(op, w, tid, test) ==
    IF op = "start" THEN StartCommit(w, tid, test)
    ELSE IF op = "pause" THEN PauseCommit(w, tid, test)
    ELSE IF op = "resume" THEN ResumeCommit(w, tid, test)
    ELSE StopCommit(w, tid, test)

\* ABTest.objects.get and the status check of a lifecycle call
LifeBegin(p) ==
    /\ pc[p] = "idle"
    /\ DOMAIN tests # {}
    /\ \E tid \in TestIdArgs, op \in LifeOps :
        IF LifeCheck(op, World, tid) # NoErr
        THEN /\ pc' = [pc EXCEPT ![p] = "done"]
             /\ loc' = [loc EXCEPT ![p] =
                          [NoLoc EXCEPT !.op = op, !.tid = tid,
                                        !.ver = Len(logs),
                                        !.err = LifeCheck(op, World, tid)]]
        ELSE /\ pc' = [pc EXCEPT ![p] = "life_commit"]
             /\ loc' = [loc EXCEPT ![p] =
                          [NoLoc EXCEPT !.op = op, !.tid = tid,
                                        !.ver = Len(logs),
                                        !.test = tests[tid]]]
    /\ UNCHANGED <<tests, variants, logs, results, platform, now, ret, rot,
                 call, calc>>

\* the transaction of a lifecycle call: test.save() of the row read at the
\* beginning, and the audit entry; start_test then calls apply_variant for
\* the first variant by name
LifeCommitStep(p) ==
    /\ pc[p] = "life_commit"
    /\ SetWorld(LifeCommit(loc[p].op, World, loc[p].tid, loc[p].test),
                MaxLifeClock)
    /\ IF loc[p].op = "start"
       THEN /\ pc' = [pc EXCEPT ![p] = "apply_read"]
            /\ loc' = [loc EXCEPT ![p].vid = OrderByName(World, loc[p].tid)[1]]
       ELSE Finish(p, TRUE, NoErr)
    /\ UNCHANGED <<ret, rot, call, calc>>

NextLife ==
    \/ Create(MaxLifeClock)
    \/ Start(MaxLifeClock)
    \/ Pause(MaxLifeClock)
    \/ \E p \in Procs : LifeBegin(p)
    \/ \E p \in Procs : LifeCommitStep(p)
    \/ \E p \in Procs : ApplyBegin(p)
    \/ \E p \in Procs : RotateBegin(p)
    \/ \E p \in Procs : ApplyRead(p)
    \/ \E p \in Procs : ApplyExt(p)
    \/ \E p \in Procs : ApplyCommitStep(p)
    \/ \E p \in Procs : SelectBegin(p)
    \/ \E p \in Procs : SelectCommitStep(p)

SpecLife == Init /\ [][NextLife]_vars

(***************************************************************************)
(* YouTubeAnalyticsService._execute_with_retry, one attempt per step       *)
(***************************************************************************)
MAX_RETRIES == 3
INITIAL_BACKOFF == 1
MAX_BACKOFF == 16

\* the status of one request.execute(): 200 when it returns a response,
\* the HttpError status, or NotHttp for any other exception
NotHttp == 0
HttpOutcomes == {200, 401, 403, 404, 429, 500, 599, NotHttp}

Min(a, b) == IF a <= b THEN a ELSE b

\* the backoff without the doubling
NextBackoff_Flat(backoff) == backoff

\* backoff *= 2
NextBackoff(backoff) == backoff * 2

\* the return statements of _execute_with_retry
Returned(c, ok, err) == [c EXCEPT !.pc = "done", !.ok = ok, !.err = err]

\* 'continue': the next iteration of 'for attempt in range(MAX_RETRIES)',
\* or the return after the loop when the range is used up
Continue(c, wait_time, backoff) ==
    LET c1 == [c EXCEPT !.attempt = c.attempt + 1, !.backoff = backoff,
                        !.slept = Append(c.slept, wait_time)]
    IN  IF c1.attempt < MAX_RETRIES THEN c1
        ELSE Returned(c1, FALSE, "failed after MAX_RETRIES attempts")

\* one iteration of the loop: request.execute() ends with status code;
\* credentials tells whether get_credentials returned credentials
Attempt(c0, code, credentials) ==
    LET c == [c0 EXCEPT !.executed = Append(c0.executed, code),
                        !.refreshed = IF code = 401
                                      THEN Append(c0.refreshed, credentials)
                                      ELSE c0.refreshed]
    IN  IF code = 200 THEN Returned(c, TRUE, "")
        ELSE IF code = NotHttp THEN Returned(c, FALSE, "Unexpected error")
        ELSE IF code = 429 \/ (500 <= code /\ code < 600)
        THEN IF c.attempt < MAX_RETRIES - 1
             THEN Continue(c, Min(c.backoff, MAX_BACKOFF),
                           NextBackoff(c.backoff))
             ELSE Returned(c, FALSE,
                    "Rate limit exceeded or server error after MAX_RETRIES attempts")
        ELSE IF code = 401
        THEN IF credentials /\ c.attempt < MAX_RETRIES - 1
             THEN Continue(c, 0, c.backoff)
             ELSE Returned(c, FALSE, "Authentication failed")
        ELSE IF code = 403
        THEN Returned(c, FALSE, "YouTube API quota exceeded")
        ELSE Returned(c, FALSE, "YouTube API error")

RetryBegin ==
    /\ call.pc = "idle"
    /\ call' = [NoCall EXCEPT !.pc = "attempt", !.backoff = INITIAL_BACKOFF]
    /\ UNCHANGED <<tests, variants, logs, results, platform, now, ret, rot,
                   pc, loc, calc>>

RetryAttempt ==
    /\ call.pc = "attempt"
    /\ \E code \in HttpOutcomes :
        \E credentials \in IF code = 401 THEN BOOLEAN ELSE {FALSE} :
            call' = Attempt(call, code, credentials)
    /\ UNCHANGED <<tests, variants, logs, results, platform, now, ret, rot,
                   pc, loc, calc>>

NextRetry == RetryBegin \/ RetryAttempt

\* the thread that runs the loop keeps running, and every request.execute()
\* returns or raises
SpecRetry == Init /\ [][NextRetry]_vars /\ WF_vars(NextRetry)

(***************************************************************************)
(* MetricsCollector called directly: update_variant_stats with the metrics  *)
(* its caller supplies, next to the operations that create, start and stop *)
(* a test and collect its metrics.                                         *)
(***************************************************************************)
\* the metrics dicts update_variant_stats is called with: one whose ctr is
\* that of its clicks and impressions, one whose ctr is not, and one
\* without the 'ctr' key
MetricsArgs ==
    { [impressions |-> 1000, clicks |-> 50, views |-> 50, ctr |-> 500],
      [impressions |-> 0, clicks |-> 50, views |-> 50, ctr |-> 500],
      [impressions |-> 1000, clicks |-> 50, views |-> 50] }

UpdateStats(cap) ==
    /\ Ready
    /\ \E vid \in VariantIdArgs, metrics \in MetricsArgs :
        Call("update_stats", update_variant_stats(World, vid, metrics), cap)
    /\ rot' = NoRun

NextMetrics ==
    \/ Create(MaxMetClock)
    \/ Start(MaxMetClock)
    \/ Stop(MaxMetClock)
    \/ Collect(MaxMetClock)
    \/ UpdateStats(MaxMetClock)

SpecMetrics == Init /\ [][NextMetrics]_vars

(***************************************************************************)
(* calculate_variant_ctr on its own: a call with its arguments, and its    *)
(* return.                                                                 *)
(***************************************************************************)
\* the arguments calculate_variant_ctr is called with
CtrImpressions == {-1, 0, 1, 3, 7, 32, 100, 1000}
CtrClicks == {-1, 0, 1, 2, 3, 5, 10, 50, 1001}

InitCtr ==
    /\ tests = <<>>
    /\ variants = <<>>
    /\ logs = <<>>
    /\ results = <<>>
    /\ platform = [v \in Videos |->
                     [thumbnail |-> "orig", title |-> "orig",
                      description |-> "orig"]]
    /\ now = 1
    /\ ret = [op |-> "init", ok |-> TRUE, err |-> NoErr, changed |-> FALSE]
    /\ rot = NoRun
    /\ pc = [p \in Procs |-> "idle"]
    /\ loc = [p \in Procs |-> NoLoc]
    /\ call = NoCall
    /\ calc \in [pc : {"called"}, impressions : CtrImpressions,
                 clicks : CtrClicks, ctr : {0}]

CalcReturn ==
    /\ calc.pc = "called"
    /\ calc' = [calc EXCEPT !.pc = "returned",
                            !.ctr = calculate_variant_ctr(calc.impressions,
                                                          calc.clicks)]
    /\ UNCHANGED <<tests, variants, logs, results, platform, now, ret, rot,
                   pc, loc, call>>

NextCtr == CalcReturn

SpecCtr == InitCtr /\ [][NextCtr]_vars

(***************************************************************************)
(* Two tests next to each other, on the same video or on two videos.       *)
(* Nothing in create_test or start_test looks at the other tests of a      *)
(* video.                                                                  *)
(***************************************************************************)
TwoVideos == {"v1", "v2"}
MaxTests == 2

InitTwo ==
    /\ tests = <<>>
    /\ variants = <<>>
    /\ logs = <<>>
    /\ results = <<>>
    /\ platform = [v \in TwoVideos |->
                     [thumbnail |-> "orig", title |-> "orig",
                      description |-> "orig"]]
    /\ now = 1
    /\ ret = [op |-> "init", ok |-> TRUE, err |-> NoErr, changed |-> FALSE]
    /\ rot = NoRun
    /\ pc = [p \in Procs |-> "idle"]
    /\ loc = [p \in Procs |-> NoLoc]
    /\ call = NoCall
    /\ calc = NoCalc

\* create_test called for a second test as well: title tests with the
\* variants A and B
CreateTwo(cap) ==
    /\ Ready
    /\ Cardinality(DOMAIN tests) < MaxTests
    /\ \E video_id \in TwoVideos, duration_hours \in Durations :
        Call("create",
             create_test(World, TRUE, video_id, "title",
                         <<Full("A"), Full("B")>>, duration_hours), cap)
    /\ rot' = NoRun

NextTwo ==
    \/ CreateTwo(MaxTwoClock)
    \/ Start(MaxTwoClock)
    \/ Apply(MaxTwoClock)
    \/ Rotate(MaxTwoClock)
    \/ Collect(MaxTwoClock)
    \/ SelectWinner(MaxTwoClock)
    \/ ApplyWinner(MaxTwoClock)

SpecTwo == InitTwo /\ [][NextTwo]_vars

(***************************************************************************)
(* Properties                                                              *)
(***************************************************************************)
\* A handler is called in a Ready state only, and a state reached by a
\* failed call that changed nothing has the tables of the Ready state
\* before it: properties of what a handler does with the tables are stated
\* for the Ready states.

\* the last element of a non-empty list
Last(s) == s[Len(s)]

\* the entries of the test in the audit log whose action is in kinds
EntriesOf(tid, kinds) ==
    SelectSeq(logs, LAMBDA e : e.test = tid /\ e.action \in kinds)

\* the external steps a dispatch of the content kind runs (section 4.2):
\* ext fails the dispatch exactly when it names one of them
FailModes(test_type) ==
    CASE test_type = "thumbnail" -> {"download_fail", "upload_fail"}
      [] test_type = "title" -> {"video_not_found", "update_fail"}
      [] test_type = "description" -> {"video_not_found", "update_fail"}
      [] test_type = "combined" -> {"video_not_found", "update_fail",
                                    "download_fail", "upload_fail"}

\* the platform is reached and every step of the dispatch succeeds
StepsSucceed(test_type, ext) ==
    ext \notin FailModes(test_type) \cup {"no_service"}

\* C1: every change of a test's state is one of draft->active,
\* paused->active, active->paused, active->completed, paused->completed,
\* and a completed test stays completed, whatever handler is called.
C1_Transitions ==
    {<<"draft", "active">>, <<"paused", "active">>, <<"active", "paused">>,
     <<"active", "completed">>, <<"paused", "completed">>}

C1_LifecycleSteps ==
    [][\A tid \in DOMAIN tests :
         /\ tid \in DOMAIN tests'
         /\ tests'[tid].status # tests[tid].status
              => <<tests[tid].status, tests'[tid].status>> \in C1_Transitions
         /\ tests[tid].status = "completed"
              => tests'[tid].status = "completed"]_vars

\* a test that was paused and is completed, on which a later call succeeded
C1_Witness ==
    /\ 1 \in DOMAIN tests
    /\ tests[1].status = "completed"
    /\ Len(EntriesOf(1, {"paused"})) > 0
    /\ ret.op = "select_winner" /\ ret.ok

\* the variant after v in alphabetical order of the names of its test,
\* the alphabetically first one after the last
C2_AlphaNext(v) ==
    LET VS == TestVariants(World, variants[v].test)
        rank(u) == NameRank(variants[u].variant_name)
        later == {u \in VS : rank(u) > rank(v)}
    IN  IF later # {}
        THEN CHOOSE u \in later : \A x \in later : rank(u) <= rank(x)
        ELSE CHOOSE u \in VS : \A x \in VS : rank(u) <= rank(x)

\* C2: in a run of consecutive successful rotate calls on a test whose
\* most recently applied variant was V, the first call applies the variant
\* after V in alphabetical order and each later call the one after the
\* previous; so N calls (N the number of variants) apply every other
\* variant once and the N-th applies V again.
C2_RoundRobin ==
    (rot.run # <<>> /\ rot.base # None) =>
        LET n == Cardinality(TestVariants(World, rot.test))
        IN  /\ rot.run[1] = C2_AlphaNext(rot.base)
            /\ \A i \in 2..Len(rot.run) :
                 rot.run[i] = C2_AlphaNext(rot.run[i - 1])
            /\ LatestApplied(World, rot.test) = Last(rot.run)
            /\ Len(rot.run) >= n =>
                 /\ rot.run[n] = rot.base
                 /\ {rot.run[i] : i \in 1..(n - 1)}
                      = TestVariants(World, rot.test) \ {rot.base}

\* three consecutive rotate calls on a test with three variants
C2_Witness ==
    /\ rot.base # None
    /\ Len(rot.run) = 3
    /\ Cardinality(TestVariants(World, rot.test)) = 3

\* C3: on an active test, apply_variant sets the variant's applied_at and
\* appends one variant_changed entry (variant id, name, applied timestamp,
\* content kind) exactly when every step of the dispatch succeeded;
\* otherwise it fails and changes no variant and no audit entry.
C3_ApplyAllOrNothing ==
    Ready => \A tid \in DOMAIN tests :
        tests[tid].status = "active" =>
            \A vid \in TestVariants(World, tid), ext \in ExtOutcomes :
                LET r == apply_variant(World, tid, vid, ext)
                IN  IF StepsSucceed(tests[tid].test_type, ext)
                    THEN /\ r.ok
                         /\ r.w.variants
                              = [variants EXCEPT ![vid].applied_at = now]
                         /\ r.w.logs = Append(logs,
                              [test |-> tid, action |-> "variant_changed",
                               details |->
                                 [variant_id |-> vid,
                                  variant_name |-> variants[vid].variant_name,
                                  applied_at |-> isoformat(now),
                                  test_type |-> tests[tid].test_type],
                               timestamp |-> now])
                    ELSE /\ ~r.ok
                         /\ r.w.variants = variants
                         /\ r.w.logs = logs

\* an apply call has succeeded and stamped a variant
C3_Witness ==
    /\ ret.op = "apply" /\ ret.ok
    /\ \E v \in DOMAIN variants : variants[v].applied_at = now - 1
    /\ Last(logs).action = "variant_changed"

\* C4: when the winner reference is set and every ContentApplier step
\* succeeds, apply_winner succeeds, stamps the winning variant and appends
\* a winner_applied entry.
C4_ApplyWinnerSucceeds ==
    \A tid \in DOMAIN tests :
        tests[tid].winner_variant # None =>
            LET r == apply_winner(World, tid, "ok")
            IN  /\ r.ok
                /\ r.w.variants[tests[tid].winner_variant].applied_at # None
                /\ Last(r.w.logs).action = "winner_applied"

\* C5: at most one variant of a test has is_winner = TRUE.
C5_OneWinner ==
    \A tid \in DOMAIN tests :
        Cardinality({v \in TestVariants(World, tid) : variants[v].is_winner})
          <= 1

\* C6: two rotate calls that run concurrently on an active test with two
\* variants do not both succeed, and leave a single new variant_changed
\* entry.
C6_OneRotateWins ==
    \A p, q \in Procs :
        ( /\ p # q
          /\ pc[p] = "done" /\ pc[q] = "done"
          /\ loc[p].op = "rotate" /\ loc[q].op = "rotate"
          /\ loc[p].tid = loc[q].tid
          /\ loc[p].ver = loc[q].ver
          /\ Cardinality(TestVariants(World, loc[p].tid)) = 2 )
        => /\ ~(loc[p].ok /\ loc[q].ok)
           /\ Len(EntriesOf(loc[p].tid, {"variant_changed"}))
                <= 1 + Len(SelectSeq(SubSeq(logs, 1, loc[p].ver),
                             LAMBDA e : e.test = loc[p].tid
                                        /\ e.action = "variant_changed"))

\* C7: two select_winner calls that name different variants of a test and
\* run concurrently do not both succeed.
C7_OneSelectWins ==
    \A p, q \in Procs :
        ( /\ p # q
          /\ pc[p] = "done" /\ pc[q] = "done"
          /\ loc[p].op = "select_winner" /\ loc[q].op = "select_winner"
          /\ loc[p].tid = loc[q].tid
          /\ loc[p].ver = loc[q].ver
          /\ loc[p].manual \in TestVariants(World, loc[p].tid)
          /\ loc[q].manual \in TestVariants(World, loc[p].tid)
          /\ loc[p].manual # loc[q].manual )
        => ~(loc[p].ok /\ loc[q].ok)

\* the state a lifecycle entry of the audit log implies
C8_Implied(action) ==
    CASE action = "created" -> "draft"
      [] action \in {"started", "resumed"} -> "active"
      [] action = "paused" -> "paused"
      [] action \in {"stopped", "winner_selected"} -> "completed"

\* the audit entry a handler writes when it succeeds
C8_Kind(op) ==
    CASE op = "create" -> "created"
      [] op = "start" -> "started"
      [] op = "pause" -> "paused"
      [] op = "resume" -> "resumed"
      [] op = "stop" -> "stopped"
      [] op \in {"apply", "rotate"} -> "variant_changed"
      [] op = "select_winner" -> "winner_selected"
      [] op = "apply_winner" -> "winner_applied"
      [] OTHER -> ""

C8_StateAgrees ==
    \A tid \in DOMAIN tests :
        LET life == EntriesOf(tid, {"created", "started", "paused", "resumed",
                                    "stopped", "winner_selected"})
        IN  /\ Len(life) > 0
            /\ tests[tid].status = C8_Implied(Last(life).action)

C8_LogStep ==
    LET added == SubSeq(logs', Len(logs) + 1, Len(logs'))
        count(k) == Cardinality({i \in 1..Len(added) : added[i].action = k})
    IN  /\ Len(logs') >= Len(logs)
        /\ SubSeq(logs', 1, Len(logs)) = logs
        /\ vars' # vars =>
             /\ (ret'.ok /\ C8_Kind(ret'.op) # "")
                  => count(C8_Kind(ret'.op)) = 1
             /\ ~ret'.ok => added = <<>>

\* C8: with the handlers run one at a time, a test's state is the state
\* its most recent lifecycle audit entry implies, every successful handler
\* call appends exactly one entry of its kind, and a failed call appends
\* none.
C8_AuditAgrees == []C8_StateAgrees /\ [][C8_LogStep]_vars

\* a winner was selected on a test that had been paused
C8_Witness ==
    /\ ret.op = "select_winner" /\ ret.ok
    /\ Last(logs).action = "winner_selected"
    /\ Len(EntriesOf(1, {"paused"})) > 0

\* C9: when the application of the first variant fails during start_test
\* on a draft or paused test, the start still succeeds with a warning: the
\* test is active with start and end set, one started entry is appended,
\* and no variant and no variant_changed entry is written.
C9_StartDecoupled ==
    Ready => \A tid \in DOMAIN tests :
        tests[tid].status \in {"draft", "paused"} =>
            \A ext \in ExtOutcomes :
                ~StepsSucceed(tests[tid].test_type, ext) =>
                    LET r == start_test(World, tid, ext)
                        t == r.w.tests[tid]
                    IN  /\ r.ok
                        /\ r.err.msg
                             = "Test started but failed to apply first variant"
                        /\ t.status = "active"
                        /\ t.start_date # None
                        /\ t.end_date # None
                        /\ r.w.variants = variants
                        /\ Len(r.w.logs) = Len(logs) + 1
                        /\ SubSeq(r.w.logs, 1, Len(logs)) = logs
                        /\ Last(r.w.logs).action = "started"
                        /\ Last(r.w.logs).test = tid

\* a start has succeeded with the warning and no variant is applied
C9_Witness ==
    /\ ret.op = "start" /\ ret.ok
    /\ ret.err.msg = "Test started but failed to apply first variant"
    /\ tests[1].status = "active"
    /\ \A v \in DOMAIN variants : variants[v].applied_at = None
    /\ Last(logs).action = "started"

\* the states in which a lifecycle request is illegal
C10_Illegal(op) ==
    CASE op = "start" -> {"active", "completed"}
      [] op = "pause" -> {"draft", "paused", "completed"}
      [] op = "resume" -> {"draft", "active", "completed"}
      [] op = "stop" -> {"draft", "completed"}

C10_Handler(op, tid, ext) ==
    CASE op = "start" -> start_test(World, tid, ext)
      [] op = "pause" -> pause_test(World, tid)
      [] op = "resume" -> resume_test(World, tid)
      [] op = "stop" -> stop_test(World, tid)

\* C10: an illegal lifecycle request fails with an error naming the test's
\* current state and changes nothing; on an unknown test id it fails with
\* not-found and changes nothing.
C10_IllegalRequests ==
    Ready => \A op \in {"start", "pause", "resume", "stop"}, tid \in TestIdArgs,
       ext \in ExtOutcomes :
        LET r == C10_Handler(op, tid, ext)
        IN  /\ tid \notin DOMAIN tests =>
                /\ ~r.ok
                /\ r.err = Err("Test not found")
                /\ r.w = World
            /\ (tid \in DOMAIN tests /\ tests[tid].status \in C10_Illegal(op)) =>
                /\ ~r.ok
                /\ r.err.state = tests[tid].status
                /\ r.w = World

\* a pause was refused on a completed test
C10_Witness ==
    /\ ret.op = "pause" /\ ~ret.ok
    /\ ret.err.state = "completed"
    /\ tests[1].status = "completed"

\* C11: rotate_variant and apply_variant on a draft, paused or completed
\* test fail with an error naming that state, reach no platform call, and
\* leave every applied_at and the audit log unchanged.
C11_InactiveRefused ==
    Ready => \A tid \in DOMAIN tests :
        tests[tid].status \in {"draft", "paused", "completed"} =>
            \A ext \in ExtOutcomes :
                /\ LET r == rotate_variant(World, tid, ext)
                   IN  /\ ~r.ok
                       /\ r.err = ErrState(
                            "Cannot rotate variants for test with status",
                            tests[tid].status)
                       /\ r.w = World
                /\ \A vid \in TestVariants(World, tid) :
                     LET r == apply_variant(World, tid, vid, ext)
                     IN  /\ ~r.ok
                         /\ r.err = ErrState(
                              "Cannot apply variant for test with status",
                              tests[tid].status)
                         /\ r.w = World

\* an apply was refused on a paused test that has an applied variant
C11_Witness ==
    /\ ret.op = "apply" /\ ~ret.ok
    /\ ret.err.state = "paused"
    /\ tests[1].status = "paused"
    /\ \E v \in DOMAIN variants : variants[v].applied_at # None

\* the alphabetically first variant of a test
C12_First(tid) ==
    CHOOSE v \in TestVariants(World, tid) :
        \A u \in TestVariants(World, tid) :
            NameRank(variants[v].variant_name)
              <= NameRank(variants[u].variant_name)

\* C12: get_current_variant returns the alphabetically first variant while
\* no variant of the test has applied_at set, and after one or more
\* successful applications (by start, rotate or apply) the variant of the
\* most recent one, which the last variant_changed entry records.
C12_Current ==
    Ready => \A tid \in DOMAIN tests :
        LET changes == EntriesOf(tid, {"variant_changed"})
        IN  IF \A v \in TestVariants(World, tid) :
                   variants[v].applied_at = None
            THEN /\ changes = <<>>
                 /\ get_current_variant(World, tid) = C12_First(tid)
            ELSE /\ changes # <<>>
                 /\ get_current_variant(World, tid)
                      = Last(changes).details.variant_id

\* three applications, the last of a variant that is not the first by
\* name nor the only one applied
C12_Witness ==
    /\ 1 \in DOMAIN tests
    /\ Len(EntriesOf(1, {"variant_changed"})) >= 3
    /\ get_current_variant(World, 1) # C12_First(1)
    /\ Cardinality({v \in DOMAIN variants : variants[v].applied_at # None})
         >= 2

\* C13: rotate_variant on an active test none of whose variants was ever
\* applied applies the alphabetically first variant.
C13_RotateFromNone ==
    \A tid \in DOMAIN tests :
        ( /\ tests[tid].status = "active"
          /\ \A v \in TestVariants(World, tid) :
               variants[v].applied_at = None )
        => LET r == rotate_variant(World, tid, "ok")
           IN  /\ r.ok
               /\ r.val = C12_First(tid)
               /\ r.w.variants[C12_First(tid)].applied_at # None

\* the periods section 4.3 describes for a variant: one per variant_changed
\* entry naming it, from the day of that entry to the day of the next
\* variant_changed entry of the test, or to the day of completion or of
\* now after the last entry
C14_Periods(tid, vid) ==
    LET ch == EntriesOf(tid, {"variant_changed"})
        end == IF tests[tid].completed_at # None
               THEN Date(tests[tid].completed_at)
               ELSE Date(now)
        own == SelectSeq([i \in 1..Len(ch) |-> i],
                         LAMBDA i : ch[i].details.variant_id = vid)
    IN  [k \in 1..Len(own) |->
           << Date(ch[own[k]].timestamp),
              IF own[k] < Len(ch) THEN Date(ch[own[k] + 1].timestamp)
              ELSE end >>]

\* C14: for every audit log, also one in which two consecutive
\* variant_changed entries name the same variant, the active periods of a
\* variant are one interval per entry naming it, from that entry to the
\* next variant_changed entry (or to completion / now).
C14_PeriodPerEntry ==
    \A tid \in DOMAIN tests :
        \A vid \in TestVariants(World, tid) :
            _get_variant_active_periods(World, tid, vid)
              = C14_Periods(tid, vid)

\* consecutive variant_changed entries of the test name different variants
C15_Alternating(tid) ==
    LET ch == EntriesOf(tid, {"variant_changed"})
    IN  \A i \in 1..(Len(ch) - 1) :
          ch[i].details.variant_id # ch[i + 1].details.variant_id

\* C15: when consecutive variant_changed entries name different variants,
\* a variant has exactly one period per entry naming it; for entries A, B,
\* A at t0 < t1 < t2 these are (t0, t1) and (t2, completion or now) for A
\* and (t1, t2) for B.
C15_AlternatingPeriods ==
    Ready => \A tid \in DOMAIN tests :
        C15_Alternating(tid) =>
            \A vid \in TestVariants(World, tid) :
                _get_variant_active_periods(World, tid, vid)
                  = C14_Periods(tid, vid)

\* the log of test 1 is A, B, A: two periods for A and one for B
C15_Witness ==
    /\ 1 \in DOMAIN tests
    /\ LET ch == EntriesOf(1, {"variant_changed"})
           a == ch[1].details.variant_id
           b == ch[2].details.variant_id
       IN  /\ Len(ch) = 3
           /\ a # b
           /\ ch[3].details.variant_id = a
           /\ _get_variant_active_periods(World, 1, a)
                = << <<Date(ch[1].timestamp), Date(ch[2].timestamp)>>,
                     <<Date(ch[3].timestamp), Date(now)>> >>
           /\ _get_variant_active_periods(World, 1, b)
                = << <<Date(ch[2].timestamp), Date(ch[3].timestamp)>> >>

\* the reported days inside one of the periods of section 4.3
C16_Days(tid, vid, rows) ==
    {d \in DOMAIN rows :
       \E k \in 1..Len(C14_Periods(tid, vid)) :
         /\ C14_Periods(tid, vid)[k][1] <= d
         /\ d <= C14_Periods(tid, vid)[k][2]}

\* C16: after a successful collect each variant's stored views is the sum
\* of the daily view counts whose day lies inside one of its active
\* periods, its impressions are views x 10 and its clicks are views; a
\* variant that was never applied has all three 0.
C16_CollectedViews ==
    \A tid \in DOMAIN tests :
        (CollectCheck(World, tid) = NoErr /\ TestVariants(World, tid) # {}) =>
            \A rows \in [CollectDays(World, tid) -> 0..MaxViews] :
                LET r == collect_variant_metrics(World, tid, FALSE, rows)
                IN  /\ r.ok
                    /\ \A v \in TestVariants(World, tid) :
                         /\ r.w.variants[v].views
                              = SumViews(rows, C16_Days(tid, v, rows))
                         /\ r.w.variants[v].impressions
                              = r.w.variants[v].views * 10
                         /\ r.w.variants[v].clicks = r.w.variants[v].views
                         /\ variants[v].applied_at = None =>
                              /\ r.w.variants[v].views = 0
                              /\ r.w.variants[v].impressions = 0
                              /\ r.w.variants[v].clicks = 0

\* C17: a successful select_winner on an active or completed test sets
\* is_winner on the chosen variant and the test's winner_variant to it,
\* appends one winner_selected entry whose manual_selection is true exactly
\* when a manual variant id was given, completes an active test and stamps
\* completed_at, and leaves the state and completed_at of a completed test
\* unchanged.
C17_SelectEffects ==
    Ready => \A tid \in DOMAIN tests :
        tests[tid].status \in {"active", "completed"} =>
            \A m \in VariantIdArgs \cup {NoArg} :
                LET r == select_winner(World, tid, m)
                    t == r.w.tests[tid]
                IN  r.ok =>
                      /\ r.val \in TestVariants(World, tid)
                      /\ m # NoArg => r.val = m
                      /\ r.w.variants
                           = [variants EXCEPT ![r.val].is_winner = TRUE]
                      /\ t.winner_variant = r.val
                      /\ Len(r.w.logs) = Len(logs) + 1
                      /\ SubSeq(r.w.logs, 1, Len(logs)) = logs
                      /\ Last(r.w.logs).test = tid
                      /\ Last(r.w.logs).action = "winner_selected"
                      /\ Last(r.w.logs).details.winner_variant_id = r.val
                      /\ Last(r.w.logs).details.manual_selection
                           = (m # NoArg)
                      /\ IF tests[tid].status = "active"
                         THEN /\ t.status = "completed"
                              /\ t.completed_at = now
                              /\ t = [tests[tid] EXCEPT
                                        !.winner_variant = r.val,
                                        !.status = "completed",
                                        !.completed_at = now]
                         ELSE t = [tests[tid] EXCEPT !.winner_variant = r.val]

\* a manual selection succeeded on a test that was already completed
C17_Witness ==
    /\ ret.op = "select_winner" /\ ret.ok
    /\ Last(logs).action = "winner_selected"
    /\ Last(logs).details.manual_selection
    /\ tests[1].status = "completed"
    /\ tests[1].completed_at # None
    /\ tests[1].completed_at < Last(logs).timestamp

\* C18: check_for_winner on an active or completed test with two or more
\* variants returns true with the id of a variant whose stored ctr is the
\* greatest of the test; on a draft or paused test it returns false with a
\* message naming the state.
C18_BestByCtr ==
    Ready => \A tid \in DOMAIN tests :
        LET r == check_for_winner(World, tid)
        IN  /\ ( /\ tests[tid].status \in {"active", "completed"}
                 /\ Cardinality(TestVariants(World, tid)) >= 2 )
               => /\ r.ok
                  /\ r.val \in TestVariants(World, tid)
                  /\ \A u \in TestVariants(World, tid) :
                       variants[u].ctr <= variants[r.val].ctr
            /\ tests[tid].status \in {"draft", "paused"}
               => /\ ~r.ok
                  /\ r.val = None
                  /\ r.err = ErrState(
                       "Cannot check winner for test with status",
                       tests[tid].status)

\* the candidate has a greater ctr than the first variant by name
C18_Witness ==
    /\ 1 \in DOMAIN tests
    /\ tests[1].status \in {"active", "completed"}
    /\ check_for_winner(World, 1).ok
    /\ check_for_winner(World, 1).val # C12_First(1)
    /\ variants[check_for_winner(World, 1).val].ctr
         > variants[C12_First(1)].ctr

\* C19: a test's winner_variant is unset or one of its own variants, and
\* select_winner with a manual variant id that is no variant of the test
\* fails with not-found and leaves the winner reference, every is_winner
\* flag, the state and the audit log unchanged.
C19_WinnerIsOwn ==
    \A tid \in DOMAIN tests :
        /\ tests[tid].winner_variant \in TestVariants(World, tid) \cup {None}
        /\ tests[tid].status \in {"active", "completed"} =>
             \A m \in (VariantIdArgs \cup {0}) \ TestVariants(World, tid) :
                 LET r == select_winner(World, tid, m)
                 IN  /\ ~r.ok
                     /\ r.err = Err("Specified variant not found")
                     /\ r.w = World

\* an outcome the retry loop treats as rate limiting or a server error
C20_Retryable(code) == code = 429 \/ (500 <= code /\ code < 600)

C20_Pow2(n) == IF n = 0 THEN 1 ELSE IF n = 1 THEN 2 ELSE 4

C20_Bounded ==
    /\ Len(call.executed) <= 3
    /\ call.pc = "attempt" => Len(call.executed) < 3
    /\ \A i \in 1..Len(call.slept) : call.slept[i] <= 16
    /\ \A i \in 1..Len(call.executed) :
         /\ ( /\ i < Len(call.executed)
              /\ \A j \in 1..i : C20_Retryable(call.executed[j]) )
            => call.slept[i] = Min(C20_Pow2(i - 1), 16)
         /\ call.executed[i] = 200
            => (i = Len(call.executed) /\ call.pc = "done" /\ call.ok)
    /\ call.pc = "done" =>
         /\ call.executed # <<>>
         /\ call.ok = (Last(call.executed) = 200)
         /\ ~call.ok => call.err # ""
         /\ C20_Retryable(Last(call.executed)) =>
              /\ Len(call.executed) = 3
              /\ ~call.ok

\* C20: for every sequence of HTTP outcomes _execute_with_retry executes
\* the request at most 3 times and then returns a response or an error;
\* while the outcomes are 429 or 5xx it sleeps 1 s before the second
\* attempt and 2 s before the third (doubling, never more than 16 s),
\* returns an error after the third failure, and returns the response as
\* soon as an attempt succeeds.
C20_RetryBounded == []C20_Bounded /\ <>(call.pc = "done")

\* three attempts that failed with 429 or 5xx, with sleeps of 1 s and 2 s
C20_Witness ==
    /\ call.pc = "done"
    /\ Len(call.executed) = 3
    /\ \A i \in 1..3 : C20_Retryable(call.executed[i])
    /\ call.slept = <<1, 2>>
    /\ ~call.ok

\* C21: on 401 _execute_with_retry refreshes the token once and retries
\* once: when every attempt answers 401 and credentials are obtained the
\* request is executed exactly twice before the authentication error is
\* returned, when they are not obtained it fails after the first attempt,
\* and a 403 or another non-retryable error fails after one attempt
\* without sleeping.
C21_OneRefresh ==
    call.pc = "done" =>
        /\ (\A i \in 1..Len(call.executed) : call.executed[i] = 401) =>
             /\ ~call.ok
             /\ call.err = "Authentication failed"
             /\ \A i \in 1..Len(call.slept) : call.slept[i] = 0
             /\ ~call.refreshed[1] => Len(call.executed) = 1
             /\ (\A i \in 1..Len(call.refreshed) : call.refreshed[i])
                  => Len(call.executed) = 2
        /\ call.executed[1] \in {403, 404, NotHttp} =>
             /\ ~call.ok
             /\ Len(call.executed) = 1
             /\ call.slept = <<>>

C23_EndIsStartPlusDuration ==
    \A tid \in DOMAIN tests :
        LET started == EntriesOf(tid, {"started"})
        IN  /\ tests[tid].end_date # None =>
                 /\ tests[tid].start_date # None
                 /\ tests[tid].end_date
                      = tests[tid].start_date + tests[tid].duration_hours
            /\ tests[tid].start_date # None =>
                 /\ started # <<>>
                 /\ tests[tid].start_date = started[1].timestamp
            /\ tests[tid].start_date = None =>
                 (started = <<>> /\ tests[tid].end_date = None)

\* no call changes a start_date or an end_date that is set
C23_StartKept ==
    \A tid \in DOMAIN tests :
        /\ tests[tid].start_date # None =>
             tests'[tid].start_date = tests[tid].start_date
        /\ tests[tid].end_date # None =>
             tests'[tid].end_date = tests[tid].end_date

\* C23: whenever a test's end_date is set it equals start_date plus the
\* duration, where start_date is the time of the first successful start; a
\* later start from paused leaves start_date and end_date unchanged.
C23_EndDate == []C23_EndIsStartPlusDuration /\ [][C23_StartKept]_vars

\* a paused test was started again later than its start_date
C23_Witness ==
    /\ ret.op = "start" /\ ret.ok
    /\ 1 \in DOMAIN tests
    /\ Len(EntriesOf(1, {"started"})) = 2
    /\ Len(EntriesOf(1, {"paused"})) = 1
    /\ tests[1].start_date < EntriesOf(1, {"started"})[2].timestamp
    /\ tests[1].end_date = tests[1].start_date + tests[1].duration_hours

\* a thumbnail test with the variants A and B that was created and not
\* yet started
C24_Created(tid) ==
    /\ tests[tid].status = "draft"
    /\ tests[tid].test_type = "thumbnail"
    /\ {variants[v].variant_name : v \in TestVariants(World, tid)}
         = {"A", "B"}
    /\ Cardinality(TestVariants(World, tid)) = 2

\* the variant of the test with the name
C24_Named(w, tid, name) ==
    CHOOSE v \in TestVariants(w, tid) : w.variants[v].variant_name = name

\* C24 as stated: after create_test of a thumbnail test with variants A
\* and B and start_test, the test is active, A has applied_at set and B
\* has not, whatever the platform answers.
C24_StartAppliesA ==
    \A tid \in DOMAIN tests :
        C24_Created(tid) =>
            \A ext \in ExtOutcomes :
                LET r == start_test(World, tid, ext)
                IN  /\ r.ok
                    /\ r.w.tests[tid].status = "active"
                    /\ r.w.variants[C24_Named(World, tid, "A")].applied_at
                         # None
                    /\ r.w.variants[C24_Named(World, tid, "B")].applied_at
                         = None

\* C24 amended: after create_test of a thumbnail test with variants A and
\* B and start_test, the test is active and B has no applied_at; A has
\* applied_at set when the download and the upload of its thumbnail
\* succeed, and has none when the platform is not reached or a step fails.
C24_StartAppliesAWhenApplied ==
    Ready => \A tid \in DOMAIN tests :
        C24_Created(tid) =>
            \A ext \in ExtOutcomes :
                LET r == start_test(World, tid, ext)
                    a == r.w.variants[C24_Named(World, tid, "A")]
                    b == r.w.variants[C24_Named(World, tid, "B")]
                IN  /\ r.ok
                    /\ r.w.tests[tid].status = "active"
                    /\ b.applied_at = None
                    /\ (a.applied_at # None)
                         = StepsSucceed("thumbnail", ext)

\* started without a warning: A is applied and B is not
C24_Witness ==
    /\ ret.op = "start" /\ ret.ok /\ ret.err = NoErr
    /\ 1 \in DOMAIN tests
    /\ tests[1].status = "active"
    /\ tests[1].test_type = "thumbnail"
    /\ Cardinality(TestVariants(World, 1)) = 2
    /\ variants[C24_Named(World, 1, "A")].applied_at # None
    /\ variants[C24_Named(World, 1, "B")].applied_at = None

\* the analytics client returning no row
C25_NoRows == [d \in {} |-> 0]

\* C25: collect_variant_metrics on a draft or paused test fails with a
\* message naming the state, whatever the analytics client would answer,
\* and changes no variant and appends no TestResult.
C25_CollectRefused ==
    Ready => \A tid \in DOMAIN tests :
        tests[tid].status \in {"draft", "paused"} =>
            \A analytics_error \in BOOLEAN :
                LET r == collect_variant_metrics(World, tid, analytics_error,
                                                 C25_NoRows)
                IN  /\ ~r.ok
                    /\ r.err = ErrState(
                         "Cannot collect metrics for test with status",
                         tests[tid].status)
                    /\ r.w = World

\* a collect was refused on a paused test
C25_Witness ==
    /\ ret.op = "collect" /\ ~ret.ok
    /\ ret.err.state = "paused"
    /\ tests[1].status = "paused"
    /\ tests[1].start_date # None
    /\ results = <<>>

\* C26 as stated: collect_variant_metrics on a test whose start_date is
\* unset fails with 'Test has not been started yet'.
C26_NotStarted ==
    \A tid \in DOMAIN tests :
        tests[tid].start_date = None =>
            LET r == collect_variant_metrics(World, tid, FALSE, C25_NoRows)
            IN  /\ ~r.ok
                /\ r.err = Err("Test has not been started yet")

\* C26 amended: a test whose start_date is unset is a draft, and
\* collect_variant_metrics fails on it with the message naming the state
\* 'draft', because the state is checked before the start date; 'Test has
\* not been started yet' is returned only for an active or completed row
\* whose start_date is unset, which no handler writes.
C26_UnstartedIsDraft ==
    Ready => \A tid \in DOMAIN tests :
        /\ tests[tid].start_date = None =>
             /\ tests[tid].status = "draft"
             /\ LET r == collect_variant_metrics(World, tid, FALSE,
                                                 C25_NoRows)
                IN  /\ ~r.ok
                    /\ r.err = ErrState(
                         "Cannot collect metrics for test with status",
                         "draft")
                    /\ r.w = World
        /\ tests[tid].status \in {"active", "completed"} =>
             /\ tests[tid].start_date # None
             /\ LET w0 == [World EXCEPT !.tests[tid].start_date = None]
                    r == collect_variant_metrics(w0, tid, FALSE, C25_NoRows)
                IN  /\ ~r.ok
                    /\ r.err = Err("Test has not been started yet")
                    /\ r.w = w0

\* a collect was refused on a draft, whose start_date is unset
C26_Witness ==
    /\ ret.op = "collect" /\ ~ret.ok
    /\ ret.err.state = "draft"
    /\ tests[1].status = "draft"
    /\ tests[1].start_date = None

(***************************************************************************)
(* C27: click-through-rate is never set independently of clicks and        *)
(* impressions: in every state reachable through create, collect and       *)
(* update_variant_stats, with any metrics its caller supplies, each        *)
(* variant's stored click-through-rate is round(clicks / impressions x     *)
(* 100, 2) of its stored clicks and impressions when impressions > 0, and  *)
(* 0.0 otherwise.                                                          *)
(***************************************************************************)
C27_CtrDerived ==
    \A vid \in DOMAIN variants :
        variants[vid].ctr = calculate_variant_ctr(variants[vid].impressions,
                                                  variants[vid].clicks)

(***************************************************************************)
(* C28: calculate_variant_ctr(impressions, clicks) returns exactly 0.0     *)
(* when impressions <= 0, whatever clicks is, and otherwise clicks /       *)
(* impressions x 100 rounded to two decimals: the hundredth it returns is  *)
(* no further than half a hundredth from the quotient; (1000, 50) gives    *)
(* 5.0, (100, 10) gives 10.0 and (0, 50) gives 0.0.                        *)
(***************************************************************************)
C28_Abs(x) == IF x < 0 THEN -x ELSE x

C28_CtrRounded ==
    calc.pc = "returned" =>
        /\ calc.impressions <= 0 => calc.ctr = 0
        /\ calc.impressions > 0 =>
             2 * C28_Abs(calc.ctr * calc.impressions - calc.clicks * 10000)
                <= calc.impressions
        /\ (calc.impressions = 1000 /\ calc.clicks = 50) => calc.ctr = 500
        /\ (calc.impressions = 100 /\ calc.clicks = 10) => calc.ctr = 1000
        /\ (calc.impressions = 0 /\ calc.clicks = 50) => calc.ctr = 0

\* the call (1000, 50) has returned 5.0
C28_Witness ==
    /\ calc.pc = "returned"
    /\ calc.impressions = 1000
    /\ calc.clicks = 50
    /\ calc.ctr = 500

(***************************************************************************)
(* C29: every successful update of a variant's metrics stores the four     *)
(* values on the variant and appends exactly four snapshots, one per       *)
(* metric kind, as one unit; a rejected update (a missing metric key or an *)
(* unknown variant id) changes nothing; snapshots are never altered or     *)
(* removed, so the snapshots of a variant come in groups of four, one      *)
(* group per successful update, and the last group holds the values stored *)
(* on the variant.                                                         *)
(***************************************************************************)
C29_Kinds == <<"impressions", "clicks", "views", "ctr">>

\* the snapshots of a variant, oldest first
C29_Of(rs, vid) == SelectSeq(rs, LAMBDA e : e.variant = vid)

\* the value of a metric kind stored on a variant row
C29_Stored(variant, kind) ==
    IF kind = "impressions" THEN variant.impressions
    ELSE IF kind = "clicks" THEN variant.clicks
    ELSE IF kind = "views" THEN variant.views
    ELSE variant.ctr

\* the four entries from position i on are one update of variant vid in
\* the table of variants vs
C29_Group(rs, i, vs, vid) ==
    \A k \in 1..4 :
        /\ rs[i + k - 1].variant = vid
        /\ rs[i + k - 1].test = vs[vid].test
        /\ rs[i + k - 1].metric_type = C29_Kinds[k]
        /\ rs[i + k - 1].recorded_at = rs[i].recorded_at

C29_GroupsOfFour ==
    /\ Len(results) % 4 = 0
    /\ \A g \in 0..(Len(results) \div 4 - 1) :
         \E vid \in DOMAIN variants : C29_Group(results, 4 * g + 1, variants, vid)
    /\ \A vid \in DOMAIN variants :
         LET mine == C29_Of(results, vid)
         IN  \A k \in 1..4 :
                 C29_Stored(variants[vid], C29_Kinds[k])
                   = IF mine = <<>> THEN 0
                     ELSE mine[Len(mine) - 4 + k].value

C29_UpdateStep ==
    /\ Len(results') >= Len(results)
    /\ SubSeq(results', 1, Len(results)) = results
    /\ (ret'.op = "update_stats" /\ ~ret'.ok) =>
         UNCHANGED <<tests, variants, logs, results, platform, now>>
    /\ (ret'.op = "update_stats" /\ ret'.ok) =>
         /\ Len(results') = Len(results) + 4
         /\ \E vid \in DOMAIN variants :
              /\ C29_Group(results', Len(results) + 1, variants', vid)
              /\ \A k \in 1..4 :
                   results'[Len(results) + k].value
                     = C29_Stored(variants'[vid], C29_Kinds[k])
              /\ \A o \in DOMAIN variants \ {vid} : variants'[o] = variants[o]
    /\ (ret'.op = "collect" /\ ret'.ok) =>
         \A vid \in DOMAIN variants :
             Len(C29_Of(results', vid)) = Len(C29_Of(results, vid)) + 4
    /\ \A vid \in DOMAIN variants \cap DOMAIN variants' :
         LET more == Len(C29_Of(results', vid)) - Len(C29_Of(results, vid))
         IN  /\ more \in {0, 4}
             /\ (\E k \in 1..4 : C29_Stored(variants'[vid], C29_Kinds[k])
                                   # C29_Stored(variants[vid], C29_Kinds[k]))
                  => more = 4

C29_SnapshotsPerUpdate == []C29_GroupsOfFour /\ [][C29_UpdateStep]_vars

\* a second direct update of the first variant has succeeded
C29_Witness ==
    /\ ret.op = "update_stats"
    /\ ret.ok
    /\ Len(C29_Of(results, 1)) = 8
    /\ variants[1].impressions = 1000

(***************************************************************************)
(* C30: every test has exactly 2 or 3 variants in every reachable state.   *)
(* create rejects a variant list of any other size and, on any rejection   *)
(* or failure while creating (duplicate variant names included), persists  *)
(* no test, no variant and no audit entry; a successful create yields a    *)
(* draft test with all its variants and one 'created' audit entry; and no  *)
(* later operation adds or removes a variant.                              *)
(***************************************************************************)
\* the lists create is called with, and the empty list
C30_Lists == VariantInputs \cup {<<>>}

C30_TwoOrThree ==
    \A tid \in DOMAIN tests :
        Cardinality(TestVariants(World, tid)) \in {2, 3}

C30_Create ==
    Ready =>
      \A user \in BOOLEAN, test_type \in TestTypeArgs,
         variants_data \in C30_Lists :
        LET r == create_test(World, user, "v1", test_type, variants_data, 2)
            tid == r.val
        IN  /\ Len(variants_data) \notin {2, 3} => ~r.ok
            /\ (\E i, j \in 1..Len(variants_data) :
                  i # j /\ variants_data[i].name = variants_data[j].name)
                 => ~r.ok
            /\ ~r.ok => r.w = World
            /\ r.ok =>
                 /\ tid \notin DOMAIN tests
                 /\ DOMAIN r.w.tests = DOMAIN tests \cup {tid}
                 /\ r.w.tests[tid].status = "draft"
                 /\ \A t \in DOMAIN tests : r.w.tests[t] = tests[t]
                 /\ \A v \in DOMAIN variants :
                      v \in DOMAIN r.w.variants /\ r.w.variants[v] = variants[v]
                 /\ Cardinality(TestVariants(r.w, tid)) = Len(variants_data)
                 /\ \A i \in 1..Len(variants_data) :
                      \E v \in TestVariants(r.w, tid) :
                          r.w.variants[v].variant_name = variants_data[i].name
                 /\ Len(r.w.logs) = Len(logs) + 1
                 /\ SubSeq(r.w.logs, 1, Len(logs)) = logs
                 /\ Last(r.w.logs).test = tid
                 /\ Last(r.w.logs).action = "created"

\* a step that is not a successful create leaves the set of variants and
\* the test of each variant as they are
C30_VariantsKept ==
    ~(ret'.op = "create" /\ ret'.ok) =>
        /\ DOMAIN variants' = DOMAIN variants
        /\ \A v \in DOMAIN variants : variants'[v].test = variants[v].test
        /\ DOMAIN tests' = DOMAIN tests

C30_VariantCount ==
    /\ [](C30_TwoOrThree /\ C30_Create)
    /\ [][C30_VariantsKept]_vars

\* a test created with three variants has been started and stopped
C30_Witness ==
    /\ 1 \in DOMAIN tests
    /\ tests[1].status = "completed"
    /\ Cardinality(TestVariants(World, 1)) = 3
    /\ Len(SelectSeq(logs, LAMBDA e : e.action = "created")) = 1

(***************************************************************************)
(* C31: in every reachable state every variant of a test has the content   *)
(* fields the test's type requires (thumbnail: thumbnail_url; title:       *)
(* title; description: description; combined: thumbnail_url and title),    *)
(* and create rejects the whole test, writing nothing, when a single       *)
(* variant lacks a required field.                                         *)
(***************************************************************************)
\* v, a variant row or a variant dict, has what test_type requires
C31_Has(test_type, v) ==
    /\ test_type = "thumbnail" => v.thumbnail_url # NoContent
    /\ test_type = "title" => v.title # NoContent
    /\ test_type = "description" => v.description # NoContent
    /\ test_type = "combined" =>
         (v.thumbnail_url # NoContent /\ v.title # NoContent)

C31_RequiredContent ==
    /\ \A vid \in DOMAIN variants :
         C31_Has(tests[variants[vid].test].test_type, variants[vid])
    /\ (ret.op = "create" /\ ~ret.ok) =>
         (tests = <<>> /\ variants = <<>> /\ logs = <<>>)
    /\ Ready =>
         \A test_type \in valid_types, variants_data \in VariantInputs :
           (\E i \in 1..Len(variants_data) :
                ~C31_Has(test_type, variants_data[i]))
             => LET r == create_test(World, TRUE, "v1", test_type,
                                     variants_data, 2)
                IN  ~r.ok /\ r.w = World

\* create has rejected a combined test whose second variant has no thumbnail
C31_Witness ==
    /\ ret.op = "create"
    /\ ~ret.ok
    /\ ret.err.msg
         = "Combined test requires both thumbnail_url and title for each variant"
    /\ tests = <<>>
    /\ variants = <<>>

(***************************************************************************)
(* C32: operations on different tests are independent: start, rotate,      *)
(* apply, collect, select_winner and apply_winner on one test change       *)
(* neither the row, the variants, the metrics or the audit entries of      *)
(* another test nor the content that is live on the platform for the       *)
(* other test's video, also when both tests are on the same video.         *)
(***************************************************************************)
\* world w has everything of test other as the current state has it
C32_Same(w, other) ==
    /\ w.tests[other] = tests[other]
    /\ TestVariants(w, other) = TestVariants(World, other)
    /\ \A v \in TestVariants(World, other) : w.variants[v] = variants[v]
    /\ SelectSeq(w.logs, LAMBDA e : e.test = other)
         = SelectSeq(logs, LAMBDA e : e.test = other)
    /\ SelectSeq(w.results, LAMBDA e : e.test = other)
         = SelectSeq(results, LAMBDA e : e.test = other)
    /\ w.platform[tests[other].video_id] = platform[tests[other].video_id]

C32_Independent ==
    Ready =>
      \A tid \in DOMAIN tests, other \in DOMAIN tests :
        tid # other =>
          /\ \A ext \in ExtOutcomes :
               /\ C32_Same(start_test(World, tid, ext).w, other)
               /\ C32_Same(rotate_variant(World, tid, ext).w, other)
               /\ C32_Same(apply_winner(World, tid, ext).w, other)
               /\ \A vid \in VariantIdArgs :
                    C32_Same(apply_variant(World, tid, vid, ext).w, other)
          /\ \A manual_variant_id \in VariantIdArgs \cup {NoArg} :
               C32_Same(select_winner(World, tid, manual_variant_id).w, other)
          /\ CollectCheck(World, tid) = NoErr =>
               \A rows \in [CollectDays(World, tid) -> 0..MaxViews] :
                 C32_Same(collect_variant_metrics(World, tid, FALSE, rows).w,
                          other)

(***************************************************************************)
(* C33: the click-through-rate calculate_variant_ctr returns is a          *)
(* percentage from 0 to 100 inclusive for all non-negative impressions and *)
(* clicks, clicks = impressions + 1 included.                              *)
(***************************************************************************)
C33_Percentage ==
    (calc.pc = "returned" /\ calc.impressions >= 0 /\ calc.clicks >= 0) =>
        (0 <= calc.ctr /\ calc.ctr <= 10000)

(***************************************************************************)
(* C34: when an apply or rotate on an active test interleaves with a pause *)
(* or stop on the same test, the apply having passed its status check      *)
(* before the pause or stop commits, no 'variant_changed' entry is         *)
(* appended and no applied_at is set once the test has left the active     *)
(* state: every 'variant_changed' entry is written, and every applied_at   *)
(* set, while the test is active.                                          *)
(***************************************************************************)
C34_WrittenWhileActive ==
    /\ \A i \in (Len(logs) + 1)..Len(logs') :
         logs'[i].action = "variant_changed"
           => tests'[logs'[i].test].status = "active"
    /\ \A v \in DOMAIN variants \cap DOMAIN variants' :
         variants'[v].applied_at # variants[v].applied_at
           => tests'[variants'[v].test].status = "active"

C34_ApplyOnlyWhileActive == [][C34_WrittenWhileActive]_vars

(***************************************************************************)
(* C35: when two lifecycle or winner calls on the same test interleave,    *)
(* the outcome is that of running them in some order one after the other.  *)
(* In particular, as in every run of one call at a time: once stop_test or *)
(* select_winner has completed the test, no save of a call running at the  *)
(* same time takes the status back to paused or active, the completed_at   *)
(* that was written stays as written, and the winner reference is not      *)
(* removed.                                                                *)
(***************************************************************************)
C35_CompletionKept ==
    \A t \in DOMAIN tests \cap DOMAIN tests' :
        /\ tests[t].status = "completed" => tests'[t].status = "completed"
        /\ tests[t].completed_at # None
             => tests'[t].completed_at = tests[t].completed_at
        /\ tests[t].winner_variant # None => tests'[t].winner_variant # None

C35_Serial == [][C35_CompletionKept]_vars

(***************************************************************************)
(* C36: once a test is completed, by stop_test or by select_winner, and    *)
(* handlers run one at a time, no further 'variant_changed' entry is       *)
(* appended, no applied_at of its variants changes, and                    *)
(* get_current_variant returns the same variant for ever.                  *)
(***************************************************************************)
C36_Frozen ==
    \A t \in DOMAIN tests :
        tests[t].status = "completed" =>
            /\ t \in DOMAIN tests'
            /\ tests'[t].status = "completed"
            /\ VariantChanges([logs |-> logs'], t)
                 = VariantChanges([logs |-> logs], t)
            /\ \A v \in TestVariants(World, t) :
                 /\ v \in DOMAIN variants'
                 /\ variants'[v].applied_at = variants[v].applied_at
            /\ get_current_variant([tests |-> tests', variants |-> variants'],
                                   t)
                 = get_current_variant(World, t)

C36_FrozenOnceCompleted == [][C36_Frozen]_vars

\* apply_winner has been refused on a completed test with a winner, one of
\* whose variants was applied while it was active
C36_Witness ==
    /\ ret.op = "apply_winner"
    /\ ~ret.ok
    /\ 1 \in DOMAIN tests
    /\ tests[1].status = "completed"
    /\ tests[1].winner_variant # None
    /\ VariantChanges(World, 1) # <<>>

(***************************************************************************)
(* C37: in every reachable state in which a variant of a test has been     *)
(* applied, the variant the most recent 'variant_changed' entry names is   *)
(* the one get_current_variant returns, the one with the latest            *)
(* applied_at, and there is a 'variant_changed' entry for every            *)
(* application.                                                            *)
(***************************************************************************)
C37_LastChangeIsCurrent ==
    \A t \in DOMAIN tests :
        (\E v \in TestVariants(World, t) : variants[v].applied_at # None) =>
            /\ VariantChanges(World, t) # <<>>
            /\ Last(VariantChanges(World, t)).details.variant_id
                 = get_current_variant(World, t)
            /\ \A v \in TestVariants(World, t) :
                 variants[v].applied_at
                   <= variants[get_current_variant(World, t)].applied_at

(***************************************************************************)
(* C38: collect attributes each daily view count to at most one variant:   *)
(* after a successful collect the stored views of all variants of the test *)
(* add up to at most the total of the daily view counts the analytics      *)
(* client returned for the period, also when a rotation happened on a day  *)
(* that has views.                                                         *)
(***************************************************************************)
RECURSIVE C38_StoredViews(_, _)
C38_StoredViews(w, vs) ==
    IF vs = {} THEN 0
    ELSE LET v == CHOOSE x \in vs : TRUE
         IN  w.variants[v].views + C38_StoredViews(w, vs \ {v})

C38_ViewsCountedOnce ==
    Ready =>
      \A tid \in DOMAIN tests :
        CollectCheck(World, tid) = NoErr =>
          \A rows \in [CollectDays(World, tid) -> 0..MaxViews] :
            LET r == collect_variant_metrics(World, tid, FALSE, rows)
            IN  r.ok => C38_StoredViews(r.w, TestVariants(r.w, tid))
                          <= SumViews(rows, DOMAIN rows)

(***************************************************************************)
(* C39: after any successful collect every variant's stored                *)
(* click-through-rate is 0.0 when no views were attributed to it and       *)
(* exactly 10.0 when some were, so an automatic select_winner after the    *)
(* collect picks the first variant by name among those with attributed     *)
(* views, or the first variant by name of all when none has views.         *)
(***************************************************************************)
\* the first variant by name among those with views, or of all
C39_Expected(w, tid) ==
    LET all == OrderByName(w, tid)
        seen == {i \in 1..Len(all) : w.variants[all[i]].views > 0}
    IN  IF seen = {} THEN all[1]
        ELSE all[CHOOSE i \in seen : \A j \in seen : i <= j]

C39_CtrZeroOrTen ==
    (ret.op = "collect" /\ ret.ok) =>
      \A tid \in DOMAIN tests :
        /\ \A v \in TestVariants(World, tid) :
             variants[v].ctr = IF variants[v].views > 0 THEN 1000 ELSE 0
        /\ LET s == select_winner(World, tid, NoArg)
           IN  /\ s.ok
               /\ s.w.tests[tid].winner_variant = C39_Expected(World, tid)
               /\ s.w.variants[C39_Expected(World, tid)].is_winner

\* a collect has attributed views to B and none to A
C39_Witness ==
    /\ ret.op = "collect"
    /\ ret.ok
    /\ \E a, b \in DOMAIN variants :
         /\ variants[a].variant_name = "A"
         /\ variants[a].views = 0
         /\ variants[b].variant_name = "B"
         /\ variants[b].views > 0
         /\ variants[b].ctr = 1000
         /\ C39_Expected(World, 1) = b

(***************************************************************************)
(* C40: in every state reached by handlers run one at a time, the          *)
(* timestamps of a test agree with its status: draft has start_date,       *)
(* end_date and completed_at unset; active and paused have start_date and  *)
(* end_date set and completed_at unset; completed has all three set; and   *)
(* a test with a winner reference is completed.                            *)
(***************************************************************************)
C40_TimestampsAgree ==
    \A t \in DOMAIN tests :
        LET test == tests[t]
        IN  /\ test.status \in {"draft", "active", "paused", "completed"}
            /\ test.status = "draft" =>
                 /\ test.start_date = None
                 /\ test.end_date = None
                 /\ test.completed_at = None
            /\ test.status \in {"active", "paused"} =>
                 /\ test.start_date # None
                 /\ test.end_date # None
                 /\ test.completed_at = None
            /\ test.status = "completed" =>
                 /\ test.start_date # None
                 /\ test.end_date # None
                 /\ test.completed_at # None
            /\ test.winner_variant # None => test.status = "completed"

\* select_winner has completed an active test
C40_Witness ==
    /\ ret.op = "select_winner"
    /\ ret.ok
    /\ tests[1].status = "completed"
    /\ tests[1].winner_variant # None
    /\ tests[1].start_date # None
    /\ tests[1].completed_at # None

====
